---- MODULE Spec2Model ----
(***************************************************************************)
(* The slab matching engine of solster (programs/slab): fixed-capacity     *)
(* pools with freelists, the price-time-priority book, and the two-phase   *)
(* reserve / commit / cancel operations, as a state machine.               *)
(*                                                                         *)
(* Every operation of the Rust code takes `slab: &mut SlabState`; here it  *)
(* is an operator from a slab record `s` to a record holding the slab      *)
(* after the call (field s), the error kind (field err, "Ok" on success)   *)
(* and the values the call returns.  A `?` in the Rust code returns the    *)
(* error and keeps every mutation made before it, and so do the operators. *)
(***************************************************************************)
EXTENDS Integers, Sequences, FiniteSets, TLC

(***************************************************************************)
(* Bounds of the model.  The pool capacities are compile-time constants of *)
(* the program (MAX_ORDERS = 30000, ...); the model runs the same code on  *)
(* small pools.                                                            *)
(***************************************************************************)
MaxOrders == 2
MaxPositions == 2
MaxReservations == 2
MaxSlices == 1
MaxTrades == 2
\* the reserves that get a hold_id, the largest timestamp the callers pass,
\* and the largest epoch
MaxHolds == 2
MaxTs == 1
MaxEpoch == 1
\* the same for the runs in which the clock passes a hold's expiry
MaxTimedTs == 2
MaxTimedHolds == 1
\* the largest position quantity from which the model still commits (a commit
\* that fails after its taker update can be retried without end)
MaxExposure == 4

\* u32::MAX, the "none" index.  TLC's integers have 32 signed bits, so the
\* model uses the largest of them; every comparison of the code (idx >= N,
\* idx != u32::MAX) gives the same result for it.
NONE == 2147483647

Accounts == {0, 1, 2}
Prices == {1, 2}
Qtys == {2}
Sides == {"Buy", "Sell"}
\* the accounts that post orders, those that take, and the designated LPs
\* registered by add_dlp
DlpAccounts == {1}
\* the inputs of the calls
Makers == {1, 2}
PostSides == {"Sell"}
Takers == {0}
TakeSides == {"Buy"}
ReserveQtys == {1, 3}
MaxReserveQty == 3
Limits == {1}

Min(a, b) == IF a <= b THEN a ELSE b
Abs(x) == IF x < 0 THEN 0 - x ELSE x

\* u64::saturating_sub
SatSub(a, b) == IF a >= b THEN a - b ELSE 0

\* Rust integer division of a signed by a positive value is the floor for
\* the non-negative operands the engine divides.
calculate_vwap(total_notional, total_qty) ==
    IF total_qty = 0 THEN 0 ELSE total_notional \div total_qty

calculate_pnl(qty, entry_price, current_price) ==
    qty * (current_price - entry_price)

calculate_funding_payment(qty, cum_funding_current, cum_funding_entry) ==
    qty * (cum_funding_current - cum_funding_entry)

\* calculate_im with the division rounding up
calculate_im_rounding_up(qty, contract_size, mark_price, imr_bps) ==
    ((((Abs(qty) * contract_size) * mark_price) * imr_bps) + 9999) \div 10000

calculate_im(qty, contract_size, mark_price, imr_bps) ==
    (((Abs(qty) * contract_size) * mark_price) * imr_bps) \div 10000

calculate_mm(qty, contract_size, mark_price, mmr_bps) ==
    (((Abs(qty) * contract_size) * mark_price) * mmr_bps) \div 10000

calculate_fee(notional, fee_bps) ==
    IF fee_bps >= 0 THEN (notional * fee_bps) \div 10000
    ELSE (notional * Abs(fee_bps)) \div 10000

is_tick_aligned(price, tick) == price % tick = 0
is_lot_aligned(qty, lot) == qty % lot = 0

(***************************************************************************)
(* Pool<T, N>.  A pool is [items, free_head, used_count, cap], cap being   *)
(* the capacity N; nf names the field of T that holds the freelist link    *)
(* (next_free for Order, index for Position, Reservation and Slice).  A    *)
(* freed slot keeps its contents.                                          *)
(***************************************************************************)
PoolNew(N, default, nf) ==
    [items |-> [i \in 0 .. (N - 1) |->
                   [[default EXCEPT ![nf] = i + 1] EXCEPT !.used = FALSE]],
     free_head |-> 0,
     used_count |-> 0,
     cap |-> N]

\* alloc that hands out the slot and leaves used_count as it is
PoolAllocUncounted(pool, nf) ==
    IF pool.used_count >= pool.cap \/ pool.free_head >= pool.cap
    THEN [pool |-> pool, idx |-> NONE]
    ELSE LET idx == pool.free_head
         IN [pool |-> [pool EXCEPT !.items[idx].used = TRUE,
                                   !.free_head = pool.items[idx][nf]],
             idx |-> idx]

\* free without the test of the used flag
PoolFreeUnchecked(pool, nf, idx) ==
    IF idx >= pool.cap THEN pool
    ELSE [pool EXCEPT !.items[idx] = [[@ EXCEPT !.used = FALSE]
                                         EXCEPT ![nf] = pool.free_head],
                      !.free_head = idx,
                      !.used_count = SatSub(pool.used_count, 1)]

\* alloc: [pool, idx], idx = NONE when the pool has no free slot
PoolAlloc(pool, nf) ==
    IF pool.used_count >= pool.cap \/ pool.free_head >= pool.cap
    THEN [pool |-> pool, idx |-> NONE]
    ELSE LET idx == pool.free_head
         IN [pool |-> [pool EXCEPT !.items[idx].used = TRUE,
                                   !.free_head = pool.items[idx][nf],
                                   !.used_count = pool.used_count + 1],
             idx |-> idx]

PoolFree(pool, nf, idx) ==
    IF idx >= pool.cap THEN pool
    ELSE IF ~pool.items[idx].used THEN pool
    ELSE [pool EXCEPT !.items[idx] = [[@ EXCEPT !.used = FALSE]
                                         EXCEPT ![nf] = pool.free_head],
                      !.free_head = idx,
                      !.used_count = SatSub(pool.used_count, 1)]

\* get / get_mut without the test of the used flag
PoolHasUnchecked(pool, idx) == idx < pool.cap

\* get / get_mut: is there an item at idx
PoolHas(pool, idx) == idx < pool.cap /\ pool.items[idx].used

\* get: the item at idx, or none
PoolGet(pool, idx) ==
    IF idx >= pool.cap THEN [some |-> FALSE]
    ELSE IF ~pool.items[idx].used THEN [some |-> FALSE]
    ELSE [some |-> TRUE, item |-> pool.items[idx]]

\* get_mut: the item at idx, or none
PoolGetMut(pool, idx) ==
    IF idx >= pool.cap THEN [some |-> FALSE]
    ELSE IF ~pool.items[idx].used THEN [some |-> FALSE]
    ELSE [some |-> TRUE, item |-> pool.items[idx]]

is_full(pool) == pool.used_count >= pool.cap

used(pool) == pool.used_count

(***************************************************************************)
(* Records (the fields the engine reads or writes).                        *)
(***************************************************************************)
DefaultOrder ==
    [order_id |-> 0, account_idx |-> 0, instrument_idx |-> 0, side |-> "Buy",
     state |-> "LIVE", eligible_epoch |-> 0, price |-> 0, qty |-> 0,
     reserved_qty |-> 0, qty_orig |-> 0, next |-> 0, prev |-> 0,
     next_free |-> 0, used |-> FALSE]

DefaultPosition ==
    [account_idx |-> 0, instrument_idx |-> 0, qty |-> 0, entry_px |-> 0,
     last_funding |-> 0, next_in_account |-> 0, index |-> 0, used |-> FALSE]

DefaultSlice ==
    [order_idx |-> 0, qty |-> 0, next |-> 0, index |-> 0, used |-> FALSE]

DefaultReservation ==
    [hold_id |-> 0, route_id |-> 0, account_idx |-> 0, instrument_idx |-> 0,
     side |-> "Buy", qty |-> 0, vwap_px |-> 0, worst_px |-> 0,
     max_charge |-> 0, book_seqno |-> 0, expiry_ms |-> 0, slice_head |-> 0,
     index |-> 0, used |-> FALSE, committed |-> FALSE]

\* SlabHeader::new, with the parameters of the header tests
SlabHeaderNew ==
    [imr |-> 500, mmr |-> 250, maker_fee |-> 0, taker_fee |-> 20,
     next_order_id |-> 1, next_hold_id |-> 1, book_seqno |-> 0,
     current_ts |-> 0]

\* find_or_create_account's fresh account
NewAccount(i) ==
    [cash |-> 0, im |-> 0, mm |-> 0, position_head |-> NONE, index |-> i,
     active |-> TRUE]

\* The instrument of scenario S1: tick = lot = contract_size = 1, empty book
NewInstrument ==
    [contract_size |-> 1, tick |-> 1, lot |-> 1, index_price |-> 1,
     cum_funding |-> 0, bids_head |-> NONE, asks_head |-> NONE,
     bids_pending_head |-> NONE, asks_pending_head |-> NONE,
     epoch |-> 0, batch_open_ms |-> 0]

MkSlab(nOrders, nPositions, nReservations, nSlices) ==
    [header |-> SlabHeaderNew,
     accounts |-> [i \in Accounts |-> NewAccount(i)],
     instruments |-> [i \in {0} |-> NewInstrument],
     instrument_count |-> 1,
     dlp_accounts |-> DlpAccounts,
     orders |-> PoolNew(nOrders, DefaultOrder, "next_free"),
     positions |-> PoolNew(nPositions, DefaultPosition, "index"),
     reservations |-> PoolNew(nReservations, DefaultReservation, "index"),
     slices |-> PoolNew(nSlices, DefaultSlice, "index"),
     trades |-> [i \in 0 .. (MaxTrades - 1) |->
                    [ts |-> 0, order_id_maker |-> 0, side |-> "Buy",
                     price |-> 0, qty |-> 0]],
     trade_head |-> 0,
     trade_count |-> 0]

InitSlab == MkSlab(MaxOrders, MaxPositions, MaxReservations, MaxSlices)

(***************************************************************************)
(* SlabState accessors                                                     *)
(***************************************************************************)
HasInstrument(s, idx) == idx < s.instrument_count
is_dlp(s, account_idx) == account_idx \in s.dlp_accounts
HasAccount(s, idx) == idx \in DOMAIN s.accounts /\ s.accounts[idx].active
HasOrder(s, idx) == PoolHas(s.orders, idx)
HasPosition(s, idx) == PoolHas(s.positions, idx)
HasReservation(s, idx) == PoolHas(s.reservations, idx)
HasSlice(s, idx) == PoolHas(s.slices, idx)

\* increment_book_seqno that leaves the number as it is
keep_book_seqno(s) == s

increment_book_seqno(s) ==
    [s EXCEPT !.header.book_seqno = @ + 1]

\* record_trade that leaves trade_head where it is
record_trade_keeping_head(s, trade) ==
    [s EXCEPT !.trades[s.trade_head] = trade,
              !.trade_count = IF s.trade_count < MaxTrades THEN @ + 1 ELSE @]

record_trade(s, trade) ==
    [s EXCEPT !.trades[s.trade_head] = trade,
              !.trade_head = (s.trade_head + 1) % MaxTrades,
              !.trade_count = IF s.trade_count < MaxTrades THEN @ + 1 ELSE @]

(***************************************************************************)
(* matching/book.rs                                                        *)
(***************************************************************************)
HeadField(side, state) ==
    IF side = "Buy"
    THEN (IF state = "LIVE" THEN "bids_head" ELSE "bids_pending_head")
    ELSE (IF state = "LIVE" THEN "asks_head" ELSE "asks_pending_head")

\* should_insert_before that looks at the price alone: an order is put ahead
\* of the resting orders of its own price
insert_before_by_price_only(side, price, new_order_id, curr_order) ==
    IF side = "Buy" THEN price >= curr_order.price
    ELSE price <= curr_order.price

should_insert_before(side, price, new_order_id, curr_order) ==
    IF side = "Buy"
    THEN price > curr_order.price
         \/ (price = curr_order.price /\ new_order_id < curr_order.order_id)
    ELSE price < curr_order.price
         \/ (price = curr_order.price /\ new_order_id < curr_order.order_id)

\* the search loop of insert_order: [curr, prev, err]
RECURSIVE FindInsertionPoint(_, _, _, _, _, _)
FindInsertionPoint(s, side, price, new_order_id, curr_idx, prev_idx) ==
    IF curr_idx = NONE THEN [curr |-> curr_idx, prev |-> prev_idx, err |-> "Ok"]
    ELSE IF ~HasOrder(s, curr_idx)
    THEN [curr |-> curr_idx, prev |-> prev_idx, err |-> "OrderNotFound"]
    ELSE IF should_insert_before(side, price, new_order_id, s.orders.items[curr_idx])
    THEN [curr |-> curr_idx, prev |-> prev_idx, err |-> "Ok"]
    ELSE FindInsertionPoint(s, side, price, new_order_id,
                            s.orders.items[curr_idx].next, curr_idx)

SetOrderField(s, idx, f, v) ==
    IF HasOrder(s, idx) THEN [s EXCEPT !.orders.items[idx][f] = v] ELSE s

\* insert_order that leaves the prev link of the order it is put ahead of
insert_order_without_back_link(s, instrument_idx, order_idx, side, price, state) ==
    IF ~HasInstrument(s, instrument_idx) THEN [s |-> s, err |-> "InvalidInstrument"]
    ELSE
    LET hf == HeadField(side, state)
        head_ptr == s.instruments[instrument_idx][hf]
        p == FindInsertionPoint(s, side, price, s.orders.items[order_idx].order_id,
                                head_ptr, NONE)
        s1 == SetOrderField(SetOrderField(s, order_idx, "next", p.curr),
                            order_idx, "prev", p.prev)
    IN IF p.err # "Ok" THEN [s |-> s, err |-> p.err]
       ELSE [s |-> increment_book_seqno(
                      IF p.prev = NONE
                      THEN [s1 EXCEPT !.instruments[instrument_idx][hf] = order_idx]
                      ELSE SetOrderField(s1, p.prev, "next", order_idx)),
             err |-> "Ok"]

insert_order(s, instrument_idx, order_idx, side, price, state) ==
    IF ~HasInstrument(s, instrument_idx) THEN [s |-> s, err |-> "InvalidInstrument"]
    ELSE
    LET hf == HeadField(side, state)
        head_ptr == s.instruments[instrument_idx][hf]
    IN IF head_ptr = NONE
       THEN LET s1 == SetOrderField(SetOrderField(s, order_idx, "next", NONE),
                                    order_idx, "prev", NONE)
                s2 == [s1 EXCEPT !.instruments[instrument_idx][hf] = order_idx]
            IN [s |-> increment_book_seqno(s2), err |-> "Ok"]
       ELSE
       LET new_order_id == s.orders.items[order_idx].order_id
           p == FindInsertionPoint(s, side, price, new_order_id, head_ptr, NONE)
       IN IF p.err # "Ok" THEN [s |-> s, err |-> p.err]
          ELSE
          LET s1 == SetOrderField(SetOrderField(s, order_idx, "next", p.curr),
                                  order_idx, "prev", p.prev)
              s2 == IF p.prev = NONE
                    THEN [s1 EXCEPT !.instruments[instrument_idx][hf] = order_idx]
                    ELSE SetOrderField(s1, p.prev, "next", order_idx)
              s3 == IF p.curr # NONE
                    THEN SetOrderField(s2, p.curr, "prev", order_idx)
                    ELSE s2
          IN [s |-> increment_book_seqno(s3), err |-> "Ok"]

remove_order(s, instrument_idx, order_idx) ==
    IF ~HasOrder(s, order_idx) THEN [s |-> s, err |-> "OrderNotFound"]
    ELSE IF ~HasInstrument(s, instrument_idx) THEN [s |-> s, err |-> "InvalidInstrument"]
    ELSE
    LET order == s.orders.items[order_idx]
        hf == HeadField(order.side, order.state)
        s1 == IF order.prev = NONE
              THEN [s EXCEPT !.instruments[instrument_idx][hf] = order.next]
              ELSE SetOrderField(s, order.prev, "next", order.next)
        s2 == IF order.next # NONE
              THEN SetOrderField(s1, order.next, "prev", order.prev)
              ELSE s1
    IN [s |-> increment_book_seqno(s2), err |-> "Ok"]

\* the inner loop of promote_side: the first pending order with
\* eligible_epoch <= epoch, or NONE
RECURSIVE FindEligible(_, _, _)
FindEligible(s, curr_idx, epoch) ==
    IF curr_idx = NONE THEN NONE
    ELSE IF ~HasOrder(s, curr_idx) THEN NONE
    ELSE IF s.orders.items[curr_idx].eligible_epoch <= epoch THEN curr_idx
    ELSE FindEligible(s, s.orders.items[curr_idx].next, epoch)

\* promote_side that stops after the first order it promotes
promote_side_once(s, instrument_idx, side, epoch) ==
    IF ~HasInstrument(s, instrument_idx) THEN [s |-> s, err |-> "InvalidInstrument"]
    ELSE
    LET order_idx == FindEligible(s, s.instruments[instrument_idx][HeadField(side, "PENDING")], epoch)
    IN IF order_idx = NONE THEN [s |-> s, err |-> "Ok"]
       ELSE
       LET r1 == remove_order(s, instrument_idx, order_idx)
       IN IF r1.err # "Ok" THEN r1
          ELSE insert_order(SetOrderField(r1.s, order_idx, "state", "LIVE"),
                            instrument_idx, order_idx, side,
                            s.orders.items[order_idx].price, "LIVE")

\* promote_side that moves the orders to the live list and leaves their state
\* as it is
RECURSIVE promote_side_keeping_state(_, _, _, _)
promote_side_keeping_state(s, instrument_idx, side, epoch) ==
    IF ~HasInstrument(s, instrument_idx) THEN [s |-> s, err |-> "InvalidInstrument"]
    ELSE
    LET order_idx == FindEligible(s, s.instruments[instrument_idx][HeadField(side, "PENDING")], epoch)
    IN IF order_idx = NONE THEN [s |-> s, err |-> "Ok"]
       ELSE
       LET r1 == remove_order(s, instrument_idx, order_idx)
           r3 == insert_order(r1.s, instrument_idx, order_idx, side,
                              s.orders.items[order_idx].price, "LIVE")
       IN IF r1.err # "Ok" THEN r1
          ELSE IF r3.err # "Ok" THEN r3
          ELSE promote_side_keeping_state(r3.s, instrument_idx, side, epoch)

RECURSIVE promote_side(_, _, _, _)
promote_side(s, instrument_idx, side, epoch) ==
    IF ~HasInstrument(s, instrument_idx) THEN [s |-> s, err |-> "InvalidInstrument"]
    ELSE
    LET pending_head == s.instruments[instrument_idx][HeadField(side, "PENDING")]
        order_idx == FindEligible(s, pending_head, epoch)
    IN IF order_idx = NONE THEN [s |-> s, err |-> "Ok"]
       ELSE
       LET price == s.orders.items[order_idx].price
           r1 == remove_order(s, instrument_idx, order_idx)
       IN IF r1.err # "Ok" THEN r1
          ELSE
          LET s2 == SetOrderField(r1.s, order_idx, "state", "LIVE")
              r3 == insert_order(s2, instrument_idx, order_idx, side, price, "LIVE")
          IN IF r3.err # "Ok" THEN r3
             ELSE promote_side(r3.s, instrument_idx, side, epoch)

promote_pending(s, instrument_idx, epoch) ==
    LET r1 == promote_side(s, instrument_idx, "Buy", epoch)
    IN IF r1.err # "Ok" THEN r1
       ELSE promote_side(r1.s, instrument_idx, "Sell", epoch)

\* instructions/batch_open.rs
process_batch_open(s, instrument_idx, current_ts) ==
    IF current_ts = 0 THEN [s |-> s, err |-> "InvalidInstruction"]
    ELSE IF ~HasInstrument(s, instrument_idx) THEN [s |-> s, err |-> "InvalidInstrument"]
    ELSE
    LET s1 == [s EXCEPT !.instruments[instrument_idx].batch_open_ms = current_ts,
                        !.instruments[instrument_idx].epoch = (@ + 1) % 65536]
    IN promote_pending(s1, instrument_idx, s1.instruments[instrument_idx].epoch)

(***************************************************************************)
(* matching/reserve.rs                                                     *)
(***************************************************************************)
calculate_max_charge(filled_qty, price, contract_size, taker_fee_bps) ==
    LET notional == filled_qty * contract_size
        value == price * notional
        fee == (value * taker_fee_bps) \div 10000
    IN value + fee

WalkResult(s, e, qty_left, total_notional, worst_px, slice_head) ==
    [s |-> s, err |-> e, qty_left |-> qty_left,
     total_notional |-> total_notional, worst_px |-> worst_px,
     slice_head |-> slice_head]

\* one slice of the walk: the slot a (the result of slices.alloc()) is filled,
\* linked at the tail of the reservation's slice list and the order's
\* reserved_qty is raised; the result is the slab
LinkSlice(s, a, curr_idx, take_qty, slice_head, slice_tail) ==
    LET slice_idx == a.idx
        s2 == [s EXCEPT !.slices = [a.pool EXCEPT !.items[slice_idx] =
                  [order_idx |-> curr_idx, qty |-> take_qty, next |-> NONE,
                   index |-> slice_idx, used |-> TRUE]]]
        s3 == IF slice_head # NONE /\ HasSlice(s2, slice_tail)
              THEN [s2 EXCEPT !.slices.items[slice_tail].next = slice_idx]
              ELSE s2
    IN SetOrderField(s3, curr_idx, "reserved_qty",
                     s.orders.items[curr_idx].reserved_qty + take_qty)

\* the loop of walk_and_reserve; side is the contra side (the book walked)
RECURSIVE WalkLoop(_, _, _, _, _, _, _, _, _)
RECURSIVE WalkTake(_, _, _, _, _, _, _, _, _, _, _)
WalkTake(s, a, take_qty, side, limit_px, curr_idx, qty_left, total_notional, worst_px, slice_head, slice_tail) ==
    IF a.idx = NONE
    THEN WalkResult(s, "PoolFull", qty_left, total_notional, worst_px, slice_head)
    ELSE WalkLoop(LinkSlice(s, a, curr_idx, take_qty, slice_head, slice_tail),
                  side, limit_px, s.orders.items[curr_idx].next,
                  SatSub(qty_left, take_qty),
                  total_notional + take_qty * s.orders.items[curr_idx].price,
                  s.orders.items[curr_idx].price,
                  IF slice_head = NONE THEN a.idx ELSE slice_head, a.idx)

WalkLoop(s, side, limit_px, curr_idx, qty_left, total_notional, worst_px, slice_head, slice_tail) ==
    IF ~(curr_idx # NONE /\ qty_left > 0)
    THEN WalkResult(s, "Ok", qty_left, total_notional, worst_px, slice_head)
    ELSE IF ~HasOrder(s, curr_idx)
    THEN WalkResult(s, "OrderNotFound", qty_left, total_notional, worst_px, slice_head)
    ELSE
    LET order == s.orders.items[curr_idx]
        crosses == IF side = "Buy" THEN order.price <= limit_px
                   ELSE order.price >= limit_px
        available == SatSub(order.qty, order.reserved_qty)
    IN IF ~crosses
       THEN WalkResult(s, "Ok", qty_left, total_notional, worst_px, slice_head)
       ELSE IF available = 0
       THEN WalkLoop(s, side, limit_px, order.next, qty_left, total_notional,
                     worst_px, slice_head, slice_tail)
       ELSE WalkTake(s, PoolAlloc(s.slices, "index"), Min(qty_left, available),
                     side, limit_px, curr_idx, qty_left, total_notional,
                     worst_px, slice_head, slice_tail)

\* what walk_and_reserve returns for the outcome w of its loop
WalkReturn(w, qty) ==
    [s |-> w.s, err |-> w.err, filled_qty |-> SatSub(qty, w.qty_left),
     total_notional |-> w.total_notional, worst_px |-> w.worst_px,
     slice_head |-> w.slice_head]

\* walk_and_reserve(slab, instrument_idx, side, qty, limit_px): side is the
\* side of the book that is walked (Buy = bids, Sell = asks); reserve passes
\* the contra side of the taker.  The crossing test of the loop matches on
\* this same side: a walked bid crosses when its price <= limit_px, a walked
\* ask when its price >= limit_px.
walk_and_reserve(s, instrument_idx, side, qty, limit_px) ==
    IF ~HasInstrument(s, instrument_idx)
    THEN [s |-> s, err |-> "InvalidInstrument", filled_qty |-> 0,
          total_notional |-> 0, worst_px |-> limit_px, slice_head |-> NONE]
    ELSE WalkReturn(
            WalkLoop(s, side, limit_px,
                     IF side = "Buy" THEN s.instruments[instrument_idx].bids_head
                     ELSE s.instruments[instrument_idx].asks_head,
                     qty, 0, limit_px, NONE, NONE),
            qty)

\* an error return that has consumed a hold id
ReserveErrConsumingHold(s, e) ==
    [s |-> [s EXCEPT !.header.next_hold_id = @ + 1], err |-> e, hold_id |-> 0,
     vwap_px |-> 0, worst_px |-> 0, max_charge |-> 0, expiry_ms |-> 0,
     book_seqno |-> 0, filled_qty |-> 0]

ReserveErr(s, e) ==
    [s |-> s, err |-> e, hold_id |-> 0, vwap_px |-> 0, worst_px |-> 0,
     max_charge |-> 0, expiry_ms |-> 0, book_seqno |-> 0, filled_qty |-> 0]

\* reserve after its walk (w is what walk_and_reserve returned): the quote is
\* computed and the reservation record written
ReserveWalked(w, instrument, resv_idx, hold_id, account_idx, instrument_idx, side, limit_px, ttl_ms, route_id) ==
    IF w.err # "Ok" THEN ReserveErr(w.s, w.err)
    ELSE
    LET vwap_px == IF w.filled_qty > 0
                   THEN calculate_vwap(w.total_notional, w.filled_qty)
                   ELSE limit_px
        max_charge == calculate_max_charge(w.filled_qty, w.worst_px,
                          instrument.contract_size, w.s.header.taker_fee)
        book_seqno == w.s.header.book_seqno
        expiry_ms == w.s.header.current_ts + ttl_ms
        resv == [hold_id |-> hold_id, route_id |-> route_id,
                 account_idx |-> account_idx,
                 instrument_idx |-> instrument_idx, side |-> side,
                 qty |-> w.filled_qty, vwap_px |-> vwap_px,
                 worst_px |-> w.worst_px, max_charge |-> max_charge,
                 book_seqno |-> book_seqno, expiry_ms |-> expiry_ms,
                 slice_head |-> w.slice_head, index |-> resv_idx,
                 used |-> TRUE, committed |-> FALSE]
    IN [s |-> IF HasReservation(w.s, resv_idx)
              THEN [w.s EXCEPT !.reservations.items[resv_idx] = resv]
              ELSE w.s,
        err |-> "Ok", hold_id |-> hold_id, vwap_px |-> vwap_px,
        worst_px |-> w.worst_px, max_charge |-> max_charge,
        expiry_ms |-> expiry_ms, book_seqno |-> book_seqno,
        filled_qty |-> w.filled_qty]

\* reserve once its reservation slot a is allocated: the hold id is taken
\* from the header and the contra book is walked
ReserveAllocated(s, a, instrument, account_idx, instrument_idx, side, qty, limit_px, ttl_ms, route_id) ==
    IF a.idx = NONE THEN ReserveErr(s, "PoolFull")
    ELSE ReserveWalked(
            walk_and_reserve([s EXCEPT !.reservations = a.pool,
                                       !.header.next_hold_id = @ + 1],
                             instrument_idx,
                             IF side = "Buy" THEN "Sell" ELSE "Buy", qty, limit_px),
            instrument, a.idx, s.header.next_hold_id, account_idx,
            instrument_idx, side, limit_px, ttl_ms, route_id)

reserve(s, account_idx, instrument_idx, side, qty, limit_px, ttl_ms, route_id) ==
    IF ~HasInstrument(s, instrument_idx) THEN ReserveErr(s, "InvalidInstrument")
    ELSE
    LET instrument == s.instruments[instrument_idx]
    IN IF ~is_tick_aligned(limit_px, instrument.tick) THEN ReserveErr(s, "PriceNotAligned")
       ELSE IF ~is_lot_aligned(qty, instrument.lot) THEN ReserveErr(s, "QuantityNotAligned")
       ELSE ReserveAllocated(s, PoolAlloc(s.reservations, "index"), instrument,
                             account_idx, instrument_idx, side, qty, limit_px,
                             ttl_ms, route_id)

\* instructions/reserve.rs
MAX_TTL_MS == 120000

\* process_reserve that hands the ttl on as it came
process_reserve_uncapped(s, account_idx, instrument_idx, side, qty, limit_px, ttl_ms, route_id) ==
    IF ttl_ms = 0 THEN ReserveErr(s, "InvalidInstruction")
    ELSE IF qty = 0 THEN ReserveErr(s, "InvalidQuantity")
    ELSE reserve(s, account_idx, instrument_idx, side, qty, limit_px, ttl_ms,
                 route_id)

process_reserve(s, account_idx, instrument_idx, side, qty, limit_px, ttl_ms, route_id) ==
    IF ttl_ms = 0 THEN ReserveErr(s, "InvalidInstruction")
    ELSE IF qty = 0 THEN ReserveErr(s, "InvalidQuantity")
    ELSE reserve(s, account_idx, instrument_idx, side, qty, limit_px,
                 Min(ttl_ms, MAX_TTL_MS), route_id)

(***************************************************************************)
(* matching/commit.rs                                                      *)
(***************************************************************************)
\* find_reservation: the lowest used slot whose hold_id matches, or NONE
find_reservation(s, hold_id) ==
    LET hits == {i \in 0 .. (s.reservations.cap - 1) :
                    HasReservation(s, i) /\ s.reservations.items[i].hold_id = hold_id}
    IN IF hits = {} THEN NONE
       ELSE CHOOSE i \in hits : \A j \in hits : i <= j

\* the search loop of update_position: [idx, found, err]
RECURSIVE FindPosition(_, _, _)
FindPosition(s, position_idx, instrument_idx) ==
    IF position_idx = NONE THEN [idx |-> position_idx, found |-> FALSE, err |-> "Ok"]
    ELSE IF ~HasPosition(s, position_idx)
    THEN [idx |-> position_idx, found |-> FALSE, err |-> "PositionNotFound"]
    ELSE IF s.positions.items[position_idx].instrument_idx = instrument_idx
    THEN [idx |-> position_idx, found |-> TRUE, err |-> "Ok"]
    ELSE FindPosition(s, s.positions.items[position_idx].next_in_account, instrument_idx)

\* the loop of remove_position
RECURSIVE RemovePositionLoop(_, _, _, _, _)
RemovePositionLoop(s, account_idx, position_idx, curr, prev) ==
    IF curr = NONE THEN [s |-> s, err |-> "Ok"]
    ELSE IF curr = position_idx
    THEN IF ~HasPosition(s, curr) THEN [s |-> s, err |-> "PositionNotFound"]
         ELSE
         LET next == s.positions.items[curr].next_in_account
             s1 == IF prev = NONE
                   THEN (IF HasAccount(s, account_idx)
                         THEN [s EXCEPT !.accounts[account_idx].position_head = next]
                         ELSE s)
                   ELSE IF HasPosition(s, prev)
                   THEN [s EXCEPT !.positions.items[prev].next_in_account = next]
                   ELSE s
         IN [s |-> [s1 EXCEPT !.positions =
                       PoolFree(s1.positions, "index", position_idx)],
             err |-> "Ok"]
    ELSE IF HasPosition(s, curr)
    THEN RemovePositionLoop(s, account_idx, position_idx,
                            s.positions.items[curr].next_in_account, curr)
    ELSE [s |-> s, err |-> "Ok"]

\* remove_position that takes the position off the head of the account's list
\* and keeps its slot
remove_position_keeping_slot(s, account_idx, position_idx) ==
    IF ~HasAccount(s, account_idx) THEN [s |-> s, err |-> "InvalidAccount"]
    ELSE [s |-> [s EXCEPT !.accounts[account_idx].position_head =
                    s.positions.items[position_idx].next_in_account],
          err |-> "Ok"]

\* remove_position that unlinks at the head of the list wherever the
\* position stands
remove_position_at_head(s, account_idx, position_idx) ==
    IF ~HasAccount(s, account_idx) THEN [s |-> s, err |-> "InvalidAccount"]
    ELSE IF ~HasPosition(s, position_idx) THEN [s |-> s, err |-> "PositionNotFound"]
    ELSE [s |-> [s EXCEPT !.accounts[account_idx].position_head =
                              s.positions.items[position_idx].next_in_account,
                          !.positions = PoolFree(s.positions, "index", position_idx)],
          err |-> "Ok"]

remove_position(s, account_idx, position_idx) ==
    IF ~HasAccount(s, account_idx) THEN [s |-> s, err |-> "InvalidAccount"]
    ELSE RemovePositionLoop(s, account_idx, position_idx,
                            s.accounts[account_idx].position_head, NONE)

AddCash(s, account_idx, amount) ==
    IF HasAccount(s, account_idx)
    THEN [s EXCEPT !.accounts[account_idx].cash = @ + amount]
    ELSE s

\* update_position for the position the search loop found at pos_idx
UpdateExisting(s, pos_idx, account_idx, qty_delta, price, cum_funding) ==
    LET pos == s.positions.items[pos_idx]
        new_qty == pos.qty + qty_delta
    IN IF new_qty = 0
       THEN remove_position(
                AddCash(s, account_idx, calculate_pnl(pos.qty, pos.entry_px, price)),
                account_idx, pos_idx)
       ELSE IF (pos.qty > 0 /\ new_qty > 0) \/ (pos.qty < 0 /\ new_qty < 0)
       THEN LET abs_old == Abs(pos.qty)
                abs_delta == Abs(qty_delta)
                new_notional == abs_old * pos.entry_px + abs_delta * price
            IN [s |-> [s EXCEPT !.positions.items[pos_idx].entry_px =
                                    calculate_vwap(new_notional, abs_old + abs_delta),
                                !.positions.items[pos_idx].qty = new_qty],
                err |-> "Ok"]
       ELSE [s |-> [AddCash(s, account_idx,
                            calculate_pnl(pos.qty, pos.entry_px, price))
                       EXCEPT !.positions.items[pos_idx].qty = new_qty,
                              !.positions.items[pos_idx].entry_px = price,
                              !.positions.items[pos_idx].last_funding = cum_funding],
             err |-> "Ok"]

\* update_position for an account without a position in the instrument: a is
\* the result of positions.alloc()
UpdateNew(s, a, account_idx, instrument_idx, qty_delta, price, cum_funding) ==
    IF a.idx = NONE THEN [s |-> s, err |-> "PoolFull"]
    ELSE [s |-> [s EXCEPT !.positions = [a.pool EXCEPT !.items[a.idx] =
                             [account_idx |-> account_idx,
                              instrument_idx |-> instrument_idx,
                              qty |-> qty_delta, entry_px |-> price,
                              last_funding |-> cum_funding,
                              next_in_account |-> s.accounts[account_idx].position_head,
                              index |-> a.idx, used |-> TRUE]],
                           !.accounts[account_idx].position_head = a.idx],
          err |-> "Ok"]

\* update_position after its search loop returned f
UpdateFound(s, f, account_idx, instrument_idx, qty_delta, price, cum_funding) ==
    IF f.err # "Ok" THEN [s |-> s, err |-> f.err]
    ELSE IF f.found
    THEN UpdateExisting(s, f.idx, account_idx, qty_delta, price, cum_funding)
    ELSE IF qty_delta # 0
    THEN UpdateNew(s, PoolAlloc(s.positions, "index"), account_idx,
                   instrument_idx, qty_delta, price, cum_funding)
    ELSE [s |-> s, err |-> "Ok"]

update_position(s, account_idx, instrument_idx, qty_delta, price, cum_funding) ==
    IF ~HasAccount(s, account_idx) THEN [s |-> s, err |-> "InvalidAccount"]
    ELSE UpdateFound(s,
             FindPosition(s, s.accounts[account_idx].position_head, instrument_idx),
             account_idx, instrument_idx, qty_delta, price, cum_funding)

\* execute_trade after the maker's update_position returned r2
TradeRecorded(r2, trade) ==
    IF r2.err # "Ok" THEN r2
    ELSE [s |-> record_trade(r2.s, trade), err |-> "Ok"]

\* execute_trade after the taker's update_position returned r1
TradeMaker(r1, maker_account_idx, instrument_idx, maker_qty, price, cum_funding, trade) ==
    IF r1.err # "Ok" THEN r1
    ELSE TradeRecorded(
            update_position(r1.s, maker_account_idx, instrument_idx, maker_qty,
                            price, cum_funding),
            trade)

execute_trade(s, taker_account_idx, maker_account_idx, instrument_idx, side, qty, price, maker_order_id, current_ts) ==
    IF ~HasInstrument(s, instrument_idx) THEN [s |-> s, err |-> "InvalidInstrument"]
    ELSE
    LET cum_funding == s.instruments[instrument_idx].cum_funding
        taker_qty == IF side = "Buy" THEN qty ELSE 0 - qty
    IN TradeMaker(
           update_position(s, taker_account_idx, instrument_idx, taker_qty,
                           price, cum_funding),
           maker_account_idx, instrument_idx, 0 - taker_qty, price, cum_funding,
           [ts |-> current_ts, order_id_maker |-> maker_order_id,
            side |-> side, price |-> price, qty |-> qty])

ExecuteResult(s, e, total_qty, total_notional, total_fee, fills) ==
    [s |-> s, err |-> e, total_qty |-> total_qty,
     total_notional |-> total_notional, total_fee |-> total_fee,
     fills |-> fills]

\* the maker's fee is taken from (or, negative, added to) the maker's cash
PayMakerFee(s, maker_account_idx, notional) ==
    IF s.header.maker_fee >= 0
    THEN AddCash(s, maker_account_idx, 0 - calculate_fee(notional, s.header.maker_fee))
    ELSE AddCash(s, maker_account_idx, calculate_fee(notional, s.header.maker_fee))

\* the order's quantity after the fill; a filled order leaves the book
FillOrder(s, instrument_idx, order_idx, new_qty) ==
    IF new_qty = 0
    THEN remove_order(SetOrderField(s, order_idx, "qty", new_qty),
                      instrument_idx, order_idx)
    ELSE [s |-> SetOrderField(s, order_idx, "qty", new_qty), err |-> "Ok"]

\* the loop of execute_slices; fills lists the trades executed so far as
\* <<maker order id, qty, price>>
RECURSIVE ExecuteLoop(_, _, _, _, _, _, _, _, _, _)
RECURSIVE ExecuteFilled(_, _, _, _, _, _, _, _, _, _, _, _)
RECURSIVE ExecuteTraded(_, _, _, _, _, _, _, _, _, _, _, _)
\* after the order's quantity was updated (r4)
ExecuteFilled(r4, order_idx, new_qty, next_slice, taker_account_idx, instrument_idx, side, current_ts, total_qty, total_notional, total_fee, fills) ==
    IF r4.err # "Ok"
    THEN ExecuteResult(r4.s, r4.err, total_qty, total_notional, total_fee, fills)
    ELSE ExecuteLoop(IF new_qty = 0
                     THEN [r4.s EXCEPT !.orders =
                              PoolFree(r4.s.orders, "next_free", order_idx)]
                     ELSE r4.s,
                     next_slice, taker_account_idx, instrument_idx, side,
                     current_ts, total_qty, total_notional, total_fee, fills)

\* after execute_trade returned r1 for the slice at curr_slice_idx of s
ExecuteTraded(s, r1, curr_slice_idx, order_idx, taker_account_idx, instrument_idx, side, current_ts, total_qty, total_notional, total_fee, fills) ==
    IF r1.err # "Ok"
    THEN ExecuteResult(r1.s, r1.err, total_qty, total_notional, total_fee, fills)
    ELSE
    LET slice == s.slices.items[curr_slice_idx]
        order == s.orders.items[order_idx]
        notional == slice.qty * order.price
        new_qty == SatSub(order.qty, slice.qty)
    IN ExecuteFilled(
           FillOrder(PayMakerFee(r1.s, order.account_idx, notional),
                     instrument_idx, order_idx, new_qty),
           order_idx, new_qty, slice.next, taker_account_idx, instrument_idx,
           side, current_ts, total_qty + slice.qty, total_notional + notional,
           total_fee + calculate_fee(notional, r1.s.header.taker_fee),
           Append(fills, <<order.order_id, slice.qty, order.price>>))

ExecuteLoop(s, curr_slice_idx, taker_account_idx, instrument_idx, side, current_ts, total_qty, total_notional, total_fee, fills) ==
    IF curr_slice_idx = NONE
    THEN ExecuteResult(s, "Ok", total_qty, total_notional, total_fee, fills)
    ELSE IF ~HasSlice(s, curr_slice_idx)
    THEN ExecuteResult(s, "InvalidReservation", total_qty, total_notional,
                       total_fee, fills)
    ELSE
    LET slice == s.slices.items[curr_slice_idx]
        order_idx == slice.order_idx
    IN IF ~HasOrder(s, order_idx)
       THEN ExecuteResult(s, "OrderNotFound", total_qty, total_notional,
                          total_fee, fills)
       ELSE ExecuteTraded(s,
                execute_trade(s, taker_account_idx,
                              s.orders.items[order_idx].account_idx,
                              instrument_idx, side, slice.qty,
                              s.orders.items[order_idx].price,
                              s.orders.items[order_idx].order_id, current_ts),
                curr_slice_idx, order_idx, taker_account_idx, instrument_idx,
                side, current_ts, total_qty, total_notional, total_fee, fills)

execute_slices(s, slice_head, taker_account_idx, instrument_idx, side, current_ts) ==
    ExecuteLoop(s, slice_head, taker_account_idx, instrument_idx, side,
                current_ts, 0, 0, 0, <<>>)

\* free_slices that takes the quantity of each slice off the reserved_qty of
\* every order of the pool
RECURSIVE free_slices_releasing_all(_, _)
free_slices_releasing_all(s, curr_idx) ==
    IF curr_idx = NONE THEN [s |-> s, err |-> "Ok"]
    ELSE IF ~HasSlice(s, curr_idx) THEN [s |-> s, err |-> "InvalidReservation"]
    ELSE
    LET slice == s.slices.items[curr_idx]
        s1 == [s EXCEPT !.orders.items =
                  [o \in DOMAIN @ |->
                      IF @[o].used
                      THEN [@[o] EXCEPT !.reserved_qty = SatSub(@, slice.qty)]
                      ELSE @[o]]]
        s2 == [s1 EXCEPT !.slices = PoolFree(s1.slices, "index", curr_idx)]
    IN free_slices_releasing_all(s2, slice.next)

RECURSIVE free_slices(_, _)
free_slices(s, curr_idx) ==
    IF curr_idx = NONE THEN [s |-> s, err |-> "Ok"]
    ELSE IF ~HasSlice(s, curr_idx) THEN [s |-> s, err |-> "InvalidReservation"]
    ELSE
    LET slice == s.slices.items[curr_idx]
        s1 == IF HasOrder(s, slice.order_idx)
              THEN SetOrderField(s, slice.order_idx, "reserved_qty",
                       SatSub(s.orders.items[slice.order_idx].reserved_qty, slice.qty))
              ELSE s
        s2 == [s1 EXCEPT !.slices = PoolFree(s1.slices, "index", curr_idx)]
    IN free_slices(s2, slice.next)

CommitErr(s, e, fills) ==
    [s |-> s, err |-> e, filled_qty |-> 0, avg_price |-> 0, total_fee |-> 0,
     total_debit |-> 0, fills |-> fills]

\* commit after free_slices returned r2
CommitFreed(r2, x) ==
    IF r2.err # "Ok" THEN CommitErr(r2.s, r2.err, x.fills)
    ELSE [s |-> r2.s, err |-> "Ok", filled_qty |-> x.total_qty,
          avg_price |-> IF x.total_qty > 0
                        THEN calculate_vwap(x.total_notional, x.total_qty)
                        ELSE 0,
          total_fee |-> x.total_fee,
          total_debit |-> x.total_notional + x.total_fee,
          fills |-> x.fills]

\* commit after execute_slices returned x: the reservation is marked
\* committed and its slices are freed
CommitExecuted(x, resv_idx, slice_head) ==
    IF x.err # "Ok" THEN CommitErr(x.s, x.err, x.fills)
    ELSE CommitFreed(
            free_slices(IF HasReservation(x.s, resv_idx)
                        THEN [x.s EXCEPT !.reservations.items[resv_idx].committed = TRUE]
                        ELSE x.s,
                        slice_head),
            x)

\* commit for the reservation found at resv_idx, without the test of the
\* committed flag
CommitFoundUnchecked(s, resv_idx, current_ts) ==
    LET resv == s.reservations.items[resv_idx]
    IN IF current_ts > resv.expiry_ms THEN CommitErr(s, "ReservationExpired", <<>>)
       ELSE CommitExecuted(
               execute_slices(s, resv.slice_head, resv.account_idx,
                              resv.instrument_idx, resv.side, current_ts),
               resv_idx, resv.slice_head)

\* commit for the reservation found at resv_idx
CommitFound(s, resv_idx, current_ts) ==
    LET resv == s.reservations.items[resv_idx]
    IN IF current_ts > resv.expiry_ms THEN CommitErr(s, "ReservationExpired", <<>>)
       ELSE IF resv.committed THEN CommitErr(s, "InvalidReservation", <<>>)
       ELSE CommitExecuted(
               execute_slices(s, resv.slice_head, resv.account_idx,
                              resv.instrument_idx, resv.side, current_ts),
               resv_idx, resv.slice_head)

\* commit for the reservation found at resv_idx, without the test of expiry
CommitFoundUnexpired(s, resv_idx, current_ts) ==
    LET resv == s.reservations.items[resv_idx]
    IN IF resv.committed THEN CommitErr(s, "InvalidReservation", <<>>)
       ELSE CommitExecuted(
               execute_slices(s, resv.slice_head, resv.account_idx,
                              resv.instrument_idx, resv.side, current_ts),
               resv_idx, resv.slice_head)

\* commit without its test of expiry
commit_without_expiry_check(s, hold_id, current_ts) ==
    IF find_reservation(s, hold_id) = NONE
    THEN CommitErr(s, "ReservationNotFound", <<>>)
    ELSE CommitFoundUnexpired(s, find_reservation(s, hold_id), current_ts)

\* commit without its test of the committed flag
commit_without_committed_check(s, hold_id, current_ts) ==
    IF find_reservation(s, hold_id) = NONE
    THEN CommitErr(s, "ReservationNotFound", <<>>)
    ELSE CommitFoundUnchecked(s, find_reservation(s, hold_id), current_ts)

commit(s, hold_id, current_ts) ==
    IF find_reservation(s, hold_id) = NONE
    THEN CommitErr(s, "ReservationNotFound", <<>>)
    ELSE CommitFound(s, find_reservation(s, hold_id), current_ts)

\* cancel after free_slices returned r1
CancelFreed(r1, resv_idx) ==
    IF r1.err # "Ok" THEN r1
    ELSE [s |-> [r1.s EXCEPT !.reservations =
                    PoolFree(r1.s.reservations, "index", resv_idx)],
          err |-> "Ok"]

\* cancel for the reservation found at resv_idx that releases the slices and
\* keeps the reservation slot
CancelFoundKeepingSlot(s, resv_idx) ==
    IF s.reservations.items[resv_idx].committed
    THEN [s |-> s, err |-> "InvalidReservation"]
    ELSE free_slices(s, s.reservations.items[resv_idx].slice_head)

\* cancel for the reservation found at resv_idx
CancelFound(s, resv_idx) ==
    IF s.reservations.items[resv_idx].committed
    THEN [s |-> s, err |-> "InvalidReservation"]
    ELSE CancelFreed(free_slices(s, s.reservations.items[resv_idx].slice_head),
                     resv_idx)

\* cancel that frees the reservation but leaves its slices in place
cancel_without_free_slices(s, hold_id) ==
    IF find_reservation(s, hold_id) = NONE
    THEN [s |-> s, err |-> "ReservationNotFound"]
    ELSE IF s.reservations.items[find_reservation(s, hold_id)].committed
    THEN [s |-> s, err |-> "InvalidReservation"]
    ELSE CancelFreed([s |-> s, err |-> "Ok"], find_reservation(s, hold_id))

cancel(s, hold_id) ==
    IF find_reservation(s, hold_id) = NONE
    THEN [s |-> s, err |-> "ReservationNotFound"]
    ELSE CancelFound(s, find_reservation(s, hold_id))

\* instructions/commit.rs
process_commit(s, hold_id, current_ts) ==
    IF current_ts = 0 THEN CommitErr(s, "InvalidInstruction", <<>>)
    ELSE commit([s EXCEPT !.header.current_ts = current_ts], hold_id, current_ts)

\* instructions/cancel.rs
process_cancel(s, hold_id) ==
    IF hold_id = 0 THEN [s |-> s, err |-> "InvalidReservation"]
    ELSE cancel(s, hold_id)

(***************************************************************************)
(* Posting an order: the slot allocation and the Order record of a post    *)
(* (PENDING with eligible_epoch = epoch + 1 for a REG maker, LIVE for a    *)
(* DLP maker), followed by book.rs insert_order.                           *)
(***************************************************************************)
post(s, account_idx, instrument_idx, side, price, qty) ==
    LET maker_class == IF is_dlp(s, account_idx) THEN "DLP" ELSE "REG"
        a == PoolAlloc(s.orders, "next_free")
    IN IF a.idx = NONE THEN [s |-> s, err |-> "PoolFull"]
       ELSE
       LET epoch == s.instruments[instrument_idx].epoch
           state == IF maker_class = "DLP" THEN "LIVE" ELSE "PENDING"
           order == [order_id |-> s.header.next_order_id,
                     account_idx |-> account_idx,
                     instrument_idx |-> instrument_idx, side |-> side,
                     state |-> state,
                     eligible_epoch |-> IF maker_class = "DLP" THEN epoch ELSE epoch + 1,
                     price |-> price, qty |-> qty, reserved_qty |-> 0,
                     qty_orig |-> qty, next |-> NONE, prev |-> NONE,
                     next_free |-> a.pool.items[a.idx].next_free, used |-> TRUE]
           s1 == [s EXCEPT !.orders = [a.pool EXCEPT !.items[a.idx] = order],
                           !.header.next_order_id = @ + 1]
       IN insert_order(s1, instrument_idx, a.idx, side, price, state)

(***************************************************************************)
(* matching/risk.rs.  The walks of an account's position list carry the    *)
(* number of steps they have left: a list that closes on itself makes the  *)
(* Rust loop run for ever, which is the result "Unending" here.            *)
(***************************************************************************)
RECURSIVE EquityLoop(_, _, _, _)
EquityLoop(s, pos_idx, equity, fuel) ==
    IF pos_idx = NONE THEN [err |-> "Ok", equity |-> equity]
    ELSE IF fuel = 0 THEN [err |-> "Unending", equity |-> equity]
    ELSE IF ~HasPosition(s, pos_idx) THEN [err |-> "PositionNotFound", equity |-> 0]
    ELSE IF ~HasInstrument(s, s.positions.items[pos_idx].instrument_idx)
    THEN [err |-> "InvalidInstrument", equity |-> 0]
    ELSE LET pos == s.positions.items[pos_idx]
             instrument == s.instruments[pos.instrument_idx]
         IN EquityLoop(s, pos.next_in_account,
                       (equity + calculate_pnl(pos.qty, pos.entry_px, instrument.index_price))
                       - calculate_funding_payment(pos.qty, instrument.cum_funding,
                                                   pos.last_funding),
                       fuel - 1)

calculate_equity(s, account_idx) ==
    IF ~HasAccount(s, account_idx) THEN [err |-> "InvalidAccount", equity |-> 0]
    ELSE EquityLoop(s, s.accounts[account_idx].position_head,
                    s.accounts[account_idx].cash, s.positions.cap)

RECURSIVE MarginLoop(_, _, _, _, _)
MarginLoop(s, pos_idx, im_total, mm_total, fuel) ==
    IF pos_idx = NONE THEN [err |-> "Ok", im |-> im_total, mm |-> mm_total]
    ELSE IF fuel = 0 THEN [err |-> "Unending", im |-> im_total, mm |-> mm_total]
    ELSE IF ~HasPosition(s, pos_idx) THEN [err |-> "PositionNotFound", im |-> 0, mm |-> 0]
    ELSE IF ~HasInstrument(s, s.positions.items[pos_idx].instrument_idx)
    THEN [err |-> "InvalidInstrument", im |-> 0, mm |-> 0]
    ELSE LET pos == s.positions.items[pos_idx]
             instrument == s.instruments[pos.instrument_idx]
         IN MarginLoop(s, pos.next_in_account,
                       im_total + calculate_im(pos.qty, instrument.contract_size,
                                               instrument.index_price, s.header.imr),
                       mm_total + calculate_mm(pos.qty, instrument.contract_size,
                                               instrument.index_price, s.header.mmr),
                       fuel - 1)

calculate_margin_requirements(s, account_idx) ==
    IF ~HasAccount(s, account_idx) THEN [err |-> "InvalidAccount", im |-> 0, mm |-> 0]
    ELSE MarginLoop(s, s.accounts[account_idx].position_head, 0, 0, s.positions.cap)

RECURSIVE PositionQtyLoop(_, _, _, _)
PositionQtyLoop(s, pos_idx, instrument_idx, fuel) ==
    IF pos_idx = NONE \/ fuel = 0 THEN 0
    ELSE IF ~HasPosition(s, pos_idx) THEN 0
    ELSE IF s.positions.items[pos_idx].instrument_idx = instrument_idx
    THEN s.positions.items[pos_idx].qty
    ELSE PositionQtyLoop(s, s.positions.items[pos_idx].next_in_account,
                         instrument_idx, fuel - 1)

get_position_qty(s, account_idx, instrument_idx) ==
    IF ~HasAccount(s, account_idx) THEN 0
    ELSE PositionQtyLoop(s, s.accounts[account_idx].position_head, instrument_idx,
                         s.positions.cap)

CheckMarginWith(s, e, m, instrument_idx, current_qty, qty_delta) ==
    IF e.err # "Ok" THEN [err |-> e.err, ok |-> FALSE]
    ELSE IF m.err # "Ok" THEN [err |-> m.err, ok |-> FALSE]
    ELSE IF ~HasInstrument(s, instrument_idx) THEN [err |-> "InvalidInstrument", ok |-> FALSE]
    ELSE LET instrument == s.instruments[instrument_idx]
             old_im == calculate_im(current_qty, instrument.contract_size,
                                    instrument.index_price, s.header.imr)
             new_im == calculate_im(current_qty + qty_delta, instrument.contract_size,
                                    instrument.index_price, s.header.imr)
             im_delta == SatSub(new_im, old_im)
             total_im == m.im + im_delta
         IN [err |-> "Ok", ok |-> e.equity >= total_im]

check_margin_pre_trade(s, account_idx, instrument_idx, qty_delta) ==
    CheckMarginWith(s, calculate_equity(s, account_idx),
                    calculate_margin_requirements(s, account_idx), instrument_idx,
                    get_position_qty(s, account_idx, instrument_idx), qty_delta)

is_liquidatable(s, account_idx) ==
    LET e == calculate_equity(s, account_idx)
        m == calculate_margin_requirements(s, account_idx)
    IN IF e.err # "Ok" THEN [err |-> e.err, ok |-> FALSE]
       ELSE IF m.err # "Ok" THEN [err |-> m.err, ok |-> FALSE]
       ELSE [err |-> "Ok", ok |-> e.equity < m.mm]

UpdateMarginWith(s, m, account_idx) ==
    IF m.err # "Ok" THEN [s |-> s, err |-> m.err]
    ELSE IF ~HasAccount(s, account_idx) THEN [s |-> s, err |-> "Ok"]
    ELSE [s |-> [s EXCEPT !.accounts[account_idx].im = m.im,
                          !.accounts[account_idx].mm = m.mm],
          err |-> "Ok"]

update_account_margin(s, account_idx) ==
    UpdateMarginWith(s, calculate_margin_requirements(s, account_idx), account_idx)

(***************************************************************************)
(* router/state/cap.rs and router/state/vault.rs.  A Pubkey is a number.   *)
(* A call that can fail returns the account with its error kind.  The      *)
(* amounts stay far below the 128-bit maximum at which the additions       *)
(* saturate.                                                               *)
(***************************************************************************)
MAX_CAP_TTL_MS == 120000

CapNew(route_id, scope_user, scope_slab, scope_mint, amount_max, current_ts, ttl_ms) ==
    [route_id |-> route_id, scope_user |-> scope_user, scope_slab |-> scope_slab,
     scope_mint |-> scope_mint, amount_max |-> amount_max,
     remaining |-> amount_max,
     expiry_ts |-> current_ts + Min(ttl_ms, MAX_CAP_TTL_MS),
     nonce |-> 0, burned |-> FALSE]

\* is_expired without the test of the burned flag
is_expired_ignoring_burn(c, current_ts) == current_ts > c.expiry_ts

is_expired(c, current_ts) == current_ts > c.expiry_ts \/ c.burned

validate_scope(c, user, slab, mint) ==
    c.scope_user = user /\ c.scope_slab = slab /\ c.scope_mint = mint

debit(c, amount, user, slab, mint, current_ts) ==
    IF is_expired(c, current_ts) THEN [cap |-> c, err |-> "Expired"]
    ELSE IF ~validate_scope(c, user, slab, mint) THEN [cap |-> c, err |-> "InvalidScope"]
    ELSE IF c.remaining < amount THEN [cap |-> c, err |-> "InsufficientRemaining"]
    ELSE [cap |-> [c EXCEPT !.remaining = SatSub(c.remaining, amount),
                            !.nonce = @ + 1],
          err |-> "Ok"]

burn(c) == [c EXCEPT !.burned = TRUE]

\* available that forgets the pledges
available_unpledged(v) == v.balance

available(v) == SatSub(v.balance, v.total_pledged)

pledge(v, amount) ==
    IF available(v) < amount THEN [vault |-> v, err |-> "Err"]
    ELSE [vault |-> [v EXCEPT !.total_pledged = v.total_pledged + amount],
          err |-> "Ok"]

unpledge(v, amount) == [v EXCEPT !.total_pledged = SatSub(v.total_pledged, amount)]

deposit(v, amount) == [v EXCEPT !.balance = v.balance + amount]

withdraw(v, amount) ==
    IF available(v) < amount THEN [vault |-> v, err |-> "Err"]
    ELSE [vault |-> [v EXCEPT !.balance = SatSub(v.balance, amount)], err |-> "Ok"]

process_deposit(v, amount) ==
    IF amount = 0 THEN [vault |-> v, err |-> "InvalidQuantity"]
    ELSE [vault |-> deposit(v, amount), err |-> "Ok"]

process_withdraw(v, amount) ==
    IF amount = 0 THEN [vault |-> v, err |-> "InvalidQuantity"]
    ELSE IF withdraw(v, amount).err # "Ok" THEN [vault |-> v, err |-> "InsufficientFunds"]
    ELSE [vault |-> withdraw(v, amount).vault, err |-> "Ok"]

\* the cap and the vault of the runs that work on the slab alone
IdleCap == CapNew(0, 0, 0, 0, 0, 0, 0)
IdleVault == [balance |-> 0, total_pledged |-> 0]

(***************************************************************************)
(* The state machine                                                       *)
(***************************************************************************)
VARIABLES header, accounts, instruments, orders, positions, reservations,
          slices, trades, trade_head, trade_count,
          last,      \* the last call: its name, error kind and results
          quotes,    \* the results of the successful reserves, by hold_id,
                     \* and whether a cancel of the hold has succeeded
          cap,       \* a capability of the router
          debited,   \* the sum of the amounts of the debits of cap that succeeded
          vault      \* a vault of the router

vars == <<header, accounts, instruments, orders, positions, reservations,
          slices, trades, trade_head, trade_count, last, quotes, cap, debited,
          vault>>

Slab ==
    [header |-> header, accounts |-> accounts, instruments |-> instruments,
     instrument_count |-> Cardinality(DOMAIN instruments),
     dlp_accounts |-> DlpAccounts, orders |-> orders, positions |-> positions,
     reservations |-> reservations, slices |-> slices, trades |-> trades,
     trade_head |-> trade_head, trade_count |-> trade_count]

Install(s) ==
    /\ header' = s.header
    /\ accounts' = s.accounts
    /\ instruments' = s.instruments
    /\ orders' = s.orders
    /\ positions' = s.positions
    /\ reservations' = s.reservations
    /\ slices' = s.slices
    /\ trades' = s.trades
    /\ trade_head' = s.trade_head
    /\ trade_count' = s.trade_count
    /\ UNCHANGED <<cap, debited, vault>>

HoldIds == 1 .. MaxHolds
Timestamps == 1 .. MaxTs
TimedTimestamps == 1 .. MaxTimedTs
NoCall ==
    [op |-> "none", err |-> "Ok", hold_id |-> 0, filled_qty |-> 0,
     avg_price |-> 0, fills |-> <<>>, side |-> "Buy", limit_px |-> 0,
     worst_px |-> 0]

Call(op, err, hold_id) ==
    [op |-> op, err |-> err, hold_id |-> hold_id, filled_qty |-> 0,
     avg_price |-> 0, fills |-> <<>>, side |-> "Buy", limit_px |-> 0,
     worst_px |-> 0]

\* the slices reachable from a slice head, as <<order id, qty, price>>
RECURSIVE SliceList(_, _, _)
SliceList(s, idx, fuel) ==
    IF idx = NONE \/ fuel = 0 \/ ~HasSlice(s, idx) THEN <<>>
    ELSE LET sl == s.slices.items[idx]
             o == s.orders.items[IF sl.order_idx < s.orders.cap THEN sl.order_idx ELSE 0]
         IN <<<<o.order_id, sl.qty, o.price>>>> \o SliceList(s, sl.next, fuel - 1)

Init ==
    /\ header = InitSlab.header
    /\ accounts = InitSlab.accounts
    /\ instruments = InitSlab.instruments
    /\ orders = InitSlab.orders
    /\ positions = InitSlab.positions
    /\ reservations = InitSlab.reservations
    /\ slices = InitSlab.slices
    /\ trades = InitSlab.trades
    /\ trade_head = InitSlab.trade_head
    /\ trade_count = InitSlab.trade_count
    /\ last = NoCall
    /\ quotes = <<>>
    /\ cap = IdleCap
    /\ debited = 0
    /\ vault = IdleVault

\* the slab and the record of the call after a call returned r
Returned(op, r, hold_id) ==
    /\ Install(r.s)
    /\ last' = Call(op, r.err, IF r.err = "Ok" THEN hold_id ELSE 0)

\* a maker posts an order
Post ==
    /\ header.next_order_id <= MaxOrders
    /\ \E account_idx \in Makers, side \in PostSides, price \in Prices, qty \in Qtys :
          Returned("post", post(Slab, account_idx, 0, side, price, qty), 0)
    /\ UNCHANGED quotes

\* BatchOpen instruction, at a time drawn from T
BatchOpenAt(T) ==
    /\ instruments[0].epoch < MaxEpoch
    /\ \E current_ts \in {ts \in T : ts >= header.current_ts} :
          Returned("batch_open", process_batch_open(Slab, 0, current_ts), 0)
    /\ UNCHANGED quotes

\* what a successful reserve returned, and the slices it linked
Quote(r) ==
    [filled_qty |-> r.filled_qty, vwap_px |-> r.vwap_px,
     worst_px |-> r.worst_px, max_charge |-> r.max_charge,
     book_seqno |-> r.book_seqno, expiry_ms |-> r.expiry_ms,
     cancelled |-> FALSE,
     slices |-> SliceList(r.s,
                   r.s.reservations.items[find_reservation(r.s, r.hold_id)].slice_head,
                   r.s.slices.cap)]

ReserveReturned(r, side, limit_px) ==
    /\ Install(r.s)
    /\ last' = [Call("reserve", r.err, r.hold_id) EXCEPT
                   !.filled_qty = r.filled_qty, !.avg_price = r.vwap_px,
                   !.side = side, !.limit_px = limit_px,
                   !.worst_px = r.worst_px]
    /\ quotes' = IF r.err = "Ok" THEN quotes @@ (r.hold_id :> Quote(r)) ELSE quotes

\* Reserve instruction, while fewer than n hold ids were handed out
ReserveUpTo(n) ==
    /\ header.next_hold_id <= n
    /\ \E account_idx \in Takers, side \in TakeSides, qty \in ReserveQtys,
          limit_px \in Limits :
          ReserveReturned(process_reserve(Slab, account_idx, 0, side, qty,
                                          limit_px, 1, 0), side, limit_px)

CommitReturned(r, hold_id) ==
    /\ Install(r.s)
    /\ last' = [Call("commit", r.err, IF r.err = "Ok" THEN hold_id ELSE 0) EXCEPT
                   !.filled_qty = r.filled_qty, !.avg_price = r.avg_price,
                   !.fills = r.fills]

\* Commit instruction, at a time drawn from T
CommitAt(T) ==
    /\ \A i \in DOMAIN positions.items : Abs(positions.items[i].qty) <= MaxExposure
    /\ \E hold_id \in HoldIds,
          current_ts \in {ts \in T : ts >= header.current_ts} :
          CommitReturned(process_commit(Slab, hold_id, current_ts), hold_id)
    /\ UNCHANGED quotes

CancelReturned(r, hold_id) ==
    /\ Returned("cancel", r, hold_id)
    /\ quotes' = IF r.err = "Ok" /\ hold_id \in DOMAIN quotes
                 THEN [quotes EXCEPT ![hold_id].cancelled = TRUE]
                 ELSE quotes

\* Cancel instruction
Cancel ==
    \E hold_id \in HoldIds : CancelReturned(process_cancel(Slab, hold_id), hold_id)

BatchOpen == BatchOpenAt(Timestamps)
Reserve == ReserveUpTo(MaxHolds)
Commit == CommitAt(Timestamps)

Next == Post \/ BatchOpen \/ Reserve \/ Commit \/ Cancel

Spec == Init /\ [][Next]_vars

\* the same program with one hold and a clock that runs past the hold's expiry
BatchOpenTimed == BatchOpenAt(TimedTimestamps)
ReserveTimed == ReserveUpTo(MaxTimedHolds)
CommitTimed == CommitAt(TimedTimestamps)

NextTimed == Post \/ BatchOpenTimed \/ ReserveTimed \/ CommitTimed \/ Cancel

TimedSpec == Init /\ [][NextTimed]_vars

(***************************************************************************)
(* The two-sided book: makers of both classes post bids and asks at both   *)
(* prices into a pool of MaxBookOrders orders, BatchOpen runs MaxBookEpoch *)
(* times, and takers of both sides reserve at both limits.                 *)
(***************************************************************************)
MaxBookOrders == 3
MaxBookPositions == 3
MaxBookReservations == 1
MaxBookSlices == 2
MaxBookHolds == 1
MaxBookEpoch == 1
BookReserveQtys == {3}

BookSlab == MkSlab(MaxBookOrders, MaxBookPositions, MaxBookReservations, MaxBookSlices)

\* the state after construction of the slab s
InitFrom(s) ==
    /\ header = s.header
    /\ accounts = s.accounts
    /\ instruments = s.instruments
    /\ orders = s.orders
    /\ positions = s.positions
    /\ reservations = s.reservations
    /\ slices = s.slices
    /\ trades = s.trades
    /\ trade_head = s.trade_head
    /\ trade_count = s.trade_count
    /\ last = NoCall
    /\ quotes = <<>>
    /\ cap = IdleCap
    /\ debited = 0
    /\ vault = IdleVault

BookInit == InitFrom(BookSlab)

PostBook ==
    /\ header.next_order_id <= MaxBookOrders
    /\ \E account_idx \in Makers, side \in Sides, price \in Prices, qty \in Qtys :
          Returned("post", post(Slab, account_idx, 0, side, price, qty), 0)
    /\ UNCHANGED quotes

BatchOpenBook ==
    /\ instruments[0].epoch < MaxBookEpoch
    /\ \E current_ts \in {ts \in Timestamps : ts >= header.current_ts} :
          Returned("batch_open", process_batch_open(Slab, 0, current_ts), 0)
    /\ UNCHANGED quotes

ReserveBook ==
    /\ header.next_hold_id <= MaxBookHolds
    /\ \E account_idx \in Takers, side \in Sides, qty \in BookReserveQtys,
          limit_px \in Prices :
          ReserveReturned(process_reserve(Slab, account_idx, 0, side, qty,
                                          limit_px, 1, 0), side, limit_px)

NextBook == PostBook \/ BatchOpenBook \/ ReserveBook \/ Commit \/ Cancel

BookSpec == BookInit /\ [][NextBook]_vars

(***************************************************************************)
(* Holds that outlive their expiry: two holds over a slice pool of         *)
(* MaxExpirySlices, and a clock that runs past the expiry of the first.    *)
(***************************************************************************)
MaxExpirySlices == 2

ExpirySlab == MkSlab(MaxOrders, MaxPositions, MaxReservations, MaxExpirySlices)

ExpiryInit == InitFrom(ExpirySlab)

NextExpiry == Post \/ BatchOpenTimed \/ Reserve \/ CommitTimed \/ Cancel

ExpirySpec == ExpiryInit /\ [][NextExpiry]_vars

(***************************************************************************)
(* A taker on both sides: the designated LP posts asks at the high price   *)
(* and bids at the low price, and the taker buys and sells against them,   *)
(* each time at the limit that equals the posted price.                    *)
(***************************************************************************)
MaxFlipOrders == 3
MaxFlipPosts == 4
MaxFlipPositions == 2
MaxFlipReservations == 2
MaxFlipSlices == 2
MaxFlipHolds == 2
AskPrice == 2
BidPrice == 1
FlipReserveQtys == {3, 4}

FlipSlab == MkSlab(MaxFlipOrders, MaxFlipPositions, MaxFlipReservations, MaxFlipSlices)

FlipInit == InitFrom(FlipSlab)

PostFlip ==
    /\ header.next_order_id <= MaxFlipPosts
    /\ \E account_idx \in DlpAccounts, side \in Sides, qty \in Qtys :
          Returned("post",
                   post(Slab, account_idx, 0, side,
                        IF side = "Sell" THEN AskPrice ELSE BidPrice, qty), 0)
    /\ UNCHANGED quotes

ReserveFlip ==
    /\ header.next_hold_id <= MaxFlipHolds
    /\ \E account_idx \in Takers, side \in Sides, qty \in FlipReserveQtys :
          ReserveReturned(
              process_reserve(Slab, account_idx, 0, side, qty,
                              IF side = "Buy" THEN AskPrice ELSE BidPrice, 1, 0),
              side, IF side = "Buy" THEN AskPrice ELSE BidPrice)

NextFlip == PostFlip \/ ReserveFlip \/ Commit \/ Cancel

FlipSpec == FlipInit /\ [][NextFlip]_vars

(***************************************************************************)
(* A commit that is tried again: the asks of two makers, a taker with two  *)
(* holds, and a position pool of MaxPositions, so that the commit of a     *)
(* hold on the orders of both makers runs out of positions part-way.       *)
(***************************************************************************)
MaxRetryOrders == 3
MaxRetrySlices == 3
RetryPrice == 1
RetryReserveQtys == {1, 2}

RetrySlab == MkSlab(MaxRetryOrders, MaxPositions, MaxReservations, MaxRetrySlices)

RetryInit == InitFrom(RetrySlab)

PostRetry ==
    /\ header.next_order_id <= MaxRetryOrders
    /\ \E account_idx \in Makers, side \in PostSides, qty \in Qtys :
          Returned("post", post(Slab, account_idx, 0, side, RetryPrice, qty), 0)
    /\ UNCHANGED quotes

ReserveRetry ==
    /\ header.next_hold_id <= MaxHolds
    /\ \E account_idx \in Takers, side \in TakeSides, qty \in RetryReserveQtys :
          ReserveReturned(process_reserve(Slab, account_idx, 0, side, qty,
                                          RetryPrice, 1, 0), side, RetryPrice)

NextRetry == PostRetry \/ BatchOpen \/ ReserveRetry \/ Commit \/ Cancel

RetrySpec == RetryInit /\ [][NextRetry]_vars

(***************************************************************************)
(* Reserves at both limits: the runs of Spec with takers that reserve at   *)
(* either price, so that a reserve can find nothing to take.               *)
(***************************************************************************)
ReserveLimits ==
    /\ header.next_hold_id <= MaxHolds
    /\ \E account_idx \in Takers, side \in TakeSides, qty \in ReserveQtys,
          limit_px \in Prices :
          ReserveReturned(process_reserve(Slab, account_idx, 0, side, qty,
                                          limit_px, 1, 0), side, limit_px)

NextLimits == Post \/ BatchOpen \/ ReserveLimits \/ Commit \/ Cancel

LimitSpec == Init /\ [][NextLimits]_vars

(***************************************************************************)
(* An instrument with tick and lot above one, and reserves with every kind *)
(* of input: an unknown instrument, a limit off the tick, a quantity off   *)
(* the lot or zero, a ttl of zero.                                         *)
(***************************************************************************)
AlignTick == 2
AlignLot == 2
MaxAlignHolds == 3
MaxAlignOrders == 1
AlignInstruments == {0, 1}
AlignLimits == {AlignTick, AlignTick + 1}
AlignReserveQtys == {0, AlignLot, AlignLot + 1}
AlignTtls == {0, 1}

AlignSlab ==
    [MkSlab(MaxAlignOrders, MaxPositions, MaxReservations, MaxSlices) EXCEPT
        !.instruments[0].tick = AlignTick, !.instruments[0].lot = AlignLot]

AlignInit == InitFrom(AlignSlab)

PostAligned ==
    /\ header.next_order_id <= MaxAlignOrders
    /\ \E account_idx \in Makers, side \in PostSides :
          Returned("post", post(Slab, account_idx, 0, side, AlignTick, AlignLot), 0)
    /\ UNCHANGED quotes

ReserveAny ==
    /\ header.next_hold_id <= MaxAlignHolds
    /\ \E account_idx \in Takers, instrument_idx \in AlignInstruments, side \in TakeSides, qty \in AlignReserveQtys, limit_px \in AlignLimits, ttl_ms \in AlignTtls :
          ReserveReturned(process_reserve(Slab, account_idx, instrument_idx, side,
                                          qty, limit_px, ttl_ms, 0),
                          side, limit_px)

NextAlign == PostAligned \/ BatchOpen \/ ReserveAny \/ Cancel

AlignSpec == AlignInit /\ [][NextAlign]_vars

(***************************************************************************)
(* Reserves with a ttl below, at and above the cap, between commits that   *)
(* move the clock.                                                         *)
(***************************************************************************)
Ttls == {1, MAX_TTL_MS, MAX_TTL_MS + 1}

ReserveTtl ==
    /\ header.next_hold_id <= MaxTimedHolds
    /\ \E account_idx \in Takers, side \in TakeSides, qty \in ReserveQtys, limit_px \in Limits, ttl_ms \in Ttls :
          ReserveReturned(process_reserve(Slab, account_idx, 0, side, qty,
                                          limit_px, ttl_ms, 0), side, limit_px)

NextTtl == Post \/ BatchOpenTimed \/ ReserveTtl \/ CommitTimed \/ Cancel

TtlSpec == Init /\ [][NextTtl]_vars

(***************************************************************************)
(* Margin: slabs whose margin ratios, index price and cash balances are    *)
(* drawn at the start, trades that open positions, and the calls of        *)
(* risk.rs on what the trades have left.                                   *)
(***************************************************************************)
MaxRiskDelta == 4
RiskRatios == {<<5000, 2500>>, <<10000, 5000>>}
RiskIndexPrices == {1, 3}
RiskCash == {0, 2}
RiskDeltas == (0 - MaxRiskDelta) .. MaxRiskDelta
CheckDeltas == {0 - MaxRiskDelta, 0 - 1, 1}

RiskSlab(imr, mmr, index_price, cash) ==
    [MkSlab(MaxOrders, MaxPositions, MaxReservations, MaxSlices) EXCEPT
        !.header.imr = imr, !.header.mmr = mmr,
        !.instruments[0].index_price = index_price,
        !.accounts = [i \in Accounts |-> [NewAccount(i) EXCEPT !.cash = cash]]]

RiskInit ==
    \E ratios \in RiskRatios, index_price \in RiskIndexPrices, cash \in RiskCash :
        InitFrom(RiskSlab(ratios[1], ratios[2], index_price, cash))

UpdateAccountMargin ==
    /\ \E account_idx \in Accounts :
          Returned("update_account_margin", update_account_margin(Slab, account_idx), 0)
    /\ UNCHANGED quotes

CheckMarginReturned(r) ==
    last' = Call("check_margin_pre_trade",
                 IF r.err # "Ok" THEN r.err ELSE IF r.ok THEN "true" ELSE "false", 0)

CheckMarginPreTrade ==
    /\ \E account_idx \in Accounts, qty_delta \in CheckDeltas :
          CheckMarginReturned(check_margin_pre_trade(Slab, account_idx, 0, qty_delta))
    /\ UNCHANGED <<header, accounts, instruments, orders, positions, reservations,
                   slices, trades, trade_head, trade_count, quotes,
                   cap, debited, vault>>

NextRisk == Post \/ ReserveTimed \/ Commit \/ Cancel \/ UpdateAccountMargin \/ CheckMarginPreTrade

RiskSpec == RiskInit /\ [][NextRisk]_vars

(***************************************************************************)
(* A capability: created with an amount, a scope and a lifetime, then      *)
(* debited and burned in any order, by any caller, at any time.            *)
(***************************************************************************)
MaxCapAmount == 3
MaxNonce == 3
CapUsers == {1, 2}
CapSlabs == {1, 2}
CapMints == {1, 2}
CapAmounts == 0 .. MaxCapAmount
CapTtls == {1, MAX_CAP_TTL_MS + 1}
CapTimestamps == {1, 2, MAX_CAP_TTL_MS + 1, MAX_CAP_TTL_MS + 2}

SlabIdle ==
    /\ header = InitSlab.header
    /\ accounts = InitSlab.accounts
    /\ instruments = InitSlab.instruments
    /\ orders = InitSlab.orders
    /\ positions = InitSlab.positions
    /\ reservations = InitSlab.reservations
    /\ slices = InitSlab.slices
    /\ trades = InitSlab.trades
    /\ trade_head = InitSlab.trade_head
    /\ trade_count = InitSlab.trade_count
    /\ last = NoCall
    /\ quotes = <<>>

SlabUnchanged ==
    UNCHANGED <<header, accounts, instruments, orders, positions, reservations,
                slices, trades, trade_head, trade_count, quotes>>

CapInit ==
    /\ SlabIdle
    /\ \E amount_max \in CapAmounts \ {0}, current_ts \in {0, 1}, ttl_ms \in CapTtls :
          cap = CapNew(1, 1, 1, 1, amount_max, current_ts, ttl_ms)
    /\ debited = 0
    /\ vault = IdleVault

DebitReturned(r, amount) ==
    /\ cap' = r.cap
    /\ debited' = IF r.err = "Ok" THEN debited + amount ELSE debited
    /\ last' = [Call("debit", r.err, 0) EXCEPT !.filled_qty = amount]

Debit ==
    /\ cap.nonce < MaxNonce
    /\ \E amount \in CapAmounts, user \in CapUsers, slab \in CapSlabs, mint \in CapMints, current_ts \in CapTimestamps :
          DebitReturned(debit(cap, amount, user, slab, mint, current_ts), amount)
    /\ UNCHANGED vault
    /\ SlabUnchanged

Burn ==
    /\ cap' = burn(cap)
    /\ last' = Call("burn", "Ok", 0)
    /\ UNCHANGED <<debited, vault>>
    /\ SlabUnchanged

NextCap == Debit \/ Burn

CapSpec == CapInit /\ [][NextCap]_vars

(***************************************************************************)
(* A vault: any balance with any part of it pledged, then deposits,        *)
(* withdrawals, pledges and unpledges of any amount.                       *)
(***************************************************************************)
MaxVaultBalance == 6
MaxVaultAmount == 3
VaultAmounts == 0 .. MaxVaultAmount

VaultInit ==
    /\ SlabIdle
    /\ cap = IdleCap
    /\ debited = 0
    /\ \E balance \in 0 .. MaxVaultBalance, total_pledged \in 0 .. MaxVaultBalance :
          /\ total_pledged <= balance
          /\ vault = [balance |-> balance, total_pledged |-> total_pledged]

VaultReturned(op, v, err, amount) ==
    /\ vault' = v
    /\ last' = [Call(op, err, 0) EXCEPT !.filled_qty = amount]
    /\ UNCHANGED <<cap, debited>>
    /\ SlabUnchanged

Deposit ==
    \E amount \in VaultAmounts :
        /\ vault.balance + amount <= MaxVaultBalance
        /\ VaultReturned("deposit", deposit(vault, amount), "Ok", amount)

ProcessDeposit ==
    \E amount \in VaultAmounts :
        /\ vault.balance + amount <= MaxVaultBalance
        /\ VaultReturned("process_deposit", process_deposit(vault, amount).vault,
                         process_deposit(vault, amount).err, amount)

Withdraw ==
    \E amount \in VaultAmounts :
        VaultReturned("withdraw", withdraw(vault, amount).vault,
                      withdraw(vault, amount).err, amount)

ProcessWithdraw ==
    \E amount \in VaultAmounts :
        VaultReturned("process_withdraw", process_withdraw(vault, amount).vault,
                      process_withdraw(vault, amount).err, amount)

Pledge ==
    \E amount \in VaultAmounts :
        VaultReturned("pledge", pledge(vault, amount).vault,
                      pledge(vault, amount).err, amount)

Unpledge ==
    \E amount \in VaultAmounts :
        VaultReturned("unpledge", unpledge(vault, amount), "Ok", amount)

NextVault == Deposit \/ ProcessDeposit \/ Withdraw \/ ProcessWithdraw \/ Pledge \/ Unpledge

VaultSpec == VaultInit /\ [][NextVault]_vars

(***************************************************************************)
(* Two instruments: the designated LP posts asks and bids on both, and the *)
(* taker buys and sells on both, so that the position list of an account   *)
(* holds two positions and a position is closed behind the head of it.     *)
(***************************************************************************)
MaxPortfolioOrders == 3
MaxPortfolioPositions == 4
MaxPortfolioReservations == 3
MaxPortfolioSlices == 1
MaxPortfolioHolds == 3
PortfolioPrice == 1
PortfolioQty == 2
PortfolioInstruments == {0, 1}

PortfolioSlab ==
    [MkSlab(MaxPortfolioOrders, MaxPortfolioPositions, MaxPortfolioReservations, MaxPortfolioSlices)
        EXCEPT !.instruments = [i \in PortfolioInstruments |-> NewInstrument],
               !.instrument_count = Cardinality(PortfolioInstruments)]

PortfolioInit == InitFrom(PortfolioSlab)

\* the orders the LP quotes, and the trades the taker asks for, as
\* <<instrument_idx, side>>
PortfolioPosts == {<<0, "Sell">>, <<1, "Sell">>, <<0, "Buy">>}
PortfolioTakes == {<<0, "Buy">>, <<1, "Buy">>, <<0, "Sell">>}

\* the LP quotes before the taker's first hold
PostPortfolio ==
    /\ header.next_order_id <= MaxPortfolioOrders
    /\ header.next_hold_id = 1
    /\ \E account_idx \in DlpAccounts, o \in PortfolioPosts :
          Returned("post", post(Slab, account_idx, o[1], o[2],
                                PortfolioPrice, PortfolioQty), 0)
    /\ UNCHANGED quotes

ReservePortfolio ==
    /\ header.next_hold_id <= MaxPortfolioHolds
    /\ \E account_idx \in Takers, o \in PortfolioTakes :
          ReserveReturned(process_reserve(Slab, account_idx, o[1], o[2],
                                          PortfolioQty, PortfolioPrice, 1, 0),
                          o[2], PortfolioPrice)

CommitPortfolio ==
    /\ \A i \in DOMAIN positions.items : Abs(positions.items[i].qty) <= MaxExposure
    /\ \E hold_id \in 1 .. MaxPortfolioHolds,
          current_ts \in {ts \in Timestamps : ts >= header.current_ts} :
          CommitReturned(process_commit(Slab, hold_id, current_ts), hold_id)
    /\ UNCHANGED quotes

NextPortfolio == PostPortfolio \/ ReservePortfolio \/ CommitPortfolio

PortfolioSpec == PortfolioInit /\ [][NextPortfolio]_vars

(***************************************************************************)
(* The pools alone: alloc and free on the order pool (freelist link in     *)
(* next_free) and on the slice pool (freelist link in index), free with    *)
(* every index up to the first one out of range.                           *)
(***************************************************************************)
PoolN == 3
PoolIdx == 0 .. PoolN

PoolSlab == MkSlab(PoolN, MaxPositions, MaxReservations, PoolN)

PoolInit == InitFrom(PoolSlab)

AllocReturned(op, r) ==
    last' = Call(op, IF r.idx = NONE THEN "None" ELSE "Ok", 0)

FreeReturned(op, pool, idx) ==
    last' = Call(op, IF PoolHas(pool, idx) THEN "Ok" ELSE "Ignored", 0)

AllocOrder ==
    LET r == PoolAlloc(orders, "next_free")
    IN /\ orders' = r.pool
       /\ AllocReturned("alloc", r)
       /\ UNCHANGED <<header, accounts, instruments, positions, reservations,
                      slices, trades, trade_head, trade_count, quotes,
                   cap, debited, vault>>

FreeOrder ==
    \E idx \in PoolIdx :
        /\ orders' = PoolFree(orders, "next_free", idx)
        /\ FreeReturned("free", orders, idx)
        /\ UNCHANGED <<header, accounts, instruments, positions, reservations,
                       slices, trades, trade_head, trade_count, quotes,
                   cap, debited, vault>>

AllocSlice ==
    LET r == PoolAlloc(slices, "index")
    IN /\ slices' = r.pool
       /\ AllocReturned("alloc", r)
       /\ UNCHANGED <<header, accounts, instruments, orders, positions,
                      reservations, trades, trade_head, trade_count, quotes,
                   cap, debited, vault>>

FreeSlice ==
    \E idx \in PoolIdx :
        /\ slices' = PoolFree(slices, "index", idx)
        /\ FreeReturned("free", slices, idx)
        /\ UNCHANGED <<header, accounts, instruments, orders, positions,
                       reservations, trades, trade_head, trade_count, quotes,
                   cap, debited, vault>>

NextPool == AllocOrder \/ FreeOrder \/ AllocSlice \/ FreeSlice

PoolSpec == PoolInit /\ [][NextPool]_vars

(***************************************************************************)
(* Properties.                                                             *)
(***************************************************************************)
UsedIdx(pool) == {i \in DOMAIN pool.items : pool.items[i].used}

\* the allocated slices reachable from a slice head
RECURSIVE ReachableSlices(_, _, _)
ReachableSlices(s, idx, fuel) ==
    IF idx = NONE \/ fuel = 0 \/ ~HasSlice(s, idx) THEN {}
    ELSE {idx} \cup ReachableSlices(s, s.slices.items[idx].next, fuel - 1)

\* the slices held by the used, uncommitted reservations
HeldSlices(s) ==
    UNION {ReachableSlices(s, s.reservations.items[r].slice_head, s.slices.cap) :
             r \in {i \in UsedIdx(s.reservations) : ~s.reservations.items[i].committed}}

RECURSIVE SumSliceQty(_, _)
SumSliceQty(s, S) ==
    IF S = {} THEN 0
    ELSE LET i == CHOOSE x \in S : TRUE
         IN s.slices.items[i].qty + SumSliceQty(s, S \ {i})

HeldQty(s, order_idx) ==
    SumSliceQty(s, {i \in HeldSlices(s) : s.slices.items[i].order_idx = order_idx})

\* C1: every used order has 0 <= reserved_qty <= qty, and its reserved_qty is
\* the sum of the quantities of the slices that reference it and are held by
\* a used, uncommitted reservation.
C1_ReservedQtyInvariant ==
    \A o \in UsedIdx(orders) :
        /\ 0 <= orders.items[o].reserved_qty
        /\ orders.items[o].reserved_qty <= orders.items[o].qty
        /\ orders.items[o].reserved_qty = HeldQty(Slab, o)

\* a reserve call that runs out of slices after it linked at least one
MidWalkPoolFull(s, r) ==
    /\ r.err = "PoolFull"
    /\ r.s.slices.used_count > s.slices.used_count

\* C2: a reserve that runs out of slices in the middle of its walk fails with
\* PoolFull and leaves the slab as it was before the call.
C2_ReservePoolFullUnwinds ==
    \A account_idx \in Takers, side \in TakeSides, qty \in ReserveQtys,
       limit_px \in Limits :
        LET r == reserve(Slab, account_idx, 0, side, qty, limit_px, 1, 0)
        IN MidWalkPoolFull(Slab, r) => r.s = Slab

\* what a caller of commit can observe of the slab (everything but the header)
Observable(s) == [s EXCEPT !.header = SlabHeaderNew]

\* C3: a commit that returns an error changes no position, cash balance,
\* order, book list, slice, reservation or trade record.
C3_CommitAllOrNothing ==
    \A hold_id \in HoldIds, current_ts \in Timestamps :
        LET r == commit(Slab, hold_id, current_ts)
        IN r.err # "Ok" => Observable(r.s) = Observable(Slab)

\* C4: once cancel(h) has succeeded, every later commit(h) and cancel(h)
\* fails with ReservationNotFound and changes nothing.
C4_CancelIsTerminal ==
    \A hold_id \in DOMAIN quotes :
        quotes[hold_id].cancelled =>
            /\ \A current_ts \in Timestamps :
                  LET r == commit(Slab, hold_id, current_ts)
                  IN r.err = "ReservationNotFound" /\ r.s = Slab
            /\ LET c == cancel(Slab, hold_id)
               IN c.err = "ReservationNotFound" /\ c.s = Slab

RECURSIVE SumPositionQty(_, _)
SumPositionQty(s, S) ==
    IF S = {} THEN 0
    ELSE LET i == CHOOSE x \in S : TRUE
         IN s.positions.items[i].qty + SumPositionQty(s, S \ {i})

OpenInterest(s, instrument_idx) ==
    SumPositionQty(s, {i \in UsedIdx(s.positions) :
                          s.positions.items[i].instrument_idx = instrument_idx})

\* C5: at every call boundary the quantities of the used positions of an
\* instrument sum to 0.
C5_ZeroSumOpenInterest == OpenInterest(Slab, 0) = 0

\* the reservation a hold id resolves to is there and not yet committed
Uncommitted(s, hold_id) ==
    LET i == find_reservation(s, hold_id)
    IN i # NONE /\ ~s.reservations.items[i].committed

\* C6: a commit of a reserved hold that is neither cancelled, committed nor
\* expired succeeds whatever happened since the reserve, and trades exactly
\* the orders and quantities of the hold's slices at the orders' prices.
C6_CommitExecutesReservedSlices ==
    \A hold_id \in DOMAIN quotes, current_ts \in Timestamps :
        (/\ ~quotes[hold_id].cancelled
         /\ Uncommitted(Slab, hold_id)
         /\ current_ts <= quotes[hold_id].expiry_ms)
        => LET r == commit(Slab, hold_id, current_ts)
           IN r.err = "Ok" /\ r.fills = quotes[hold_id].slices

\* C7: a successful commit of a hold that reserved a positive quantity returns
\* the filled_qty and the vwap_px that the reserve returned.
C7_CommitAgreesWithQuote ==
    \A hold_id \in DOMAIN quotes, current_ts \in Timestamps :
        LET r == commit(Slab, hold_id, current_ts)
        IN (quotes[hold_id].filled_qty > 0 /\ r.err = "Ok")
           => /\ r.filled_qty = quotes[hold_id].filled_qty
              /\ r.avg_price = quotes[hold_id].vwap_px

\* C8: a successful commit frees the reservation: the reservation pool's used
\* count is one lower than before the call.
C8_CommitFreesReservation ==
    \A hold_id \in HoldIds, current_ts \in Timestamps :
        LET r == commit(Slab, hold_id, current_ts)
        IN r.err = "Ok" =>
              r.s.reservations.used_count = reservations.used_count - 1

\* the reservation a hold id resolves to is there and committed
Committed(s, hold_id) ==
    LET i == find_reservation(s, hold_id)
    IN i # NONE /\ s.reservations.items[i].committed

\* C9 as stated: a commit on a hold whose reservation is already committed
\* fails with InvalidReservation and changes nothing.
C9_SecondCommitInvalidReservation ==
    \A hold_id \in HoldIds, current_ts \in TimedTimestamps :
        Committed(Slab, hold_id) =>
            LET r == commit(Slab, hold_id, current_ts)
            IN r.err = "InvalidReservation" /\ r.s = Slab

\* C9, amended: a commit on a hold whose reservation is already committed
\* changes nothing and fails, with ReservationExpired when current_ts is past
\* the reservation's expiry_ms and with InvalidReservation otherwise.
C9_SecondCommitFails ==
    \A hold_id \in HoldIds, current_ts \in TimedTimestamps :
        Committed(Slab, hold_id) =>
            LET r == commit(Slab, hold_id, current_ts)
                resv == reservations.items[find_reservation(Slab, hold_id)]
            IN /\ r.err = IF current_ts > resv.expiry_ms
                          THEN "ReservationExpired" ELSE "InvalidReservation"
               /\ r.s = Slab

\* a commit of the committed hold has just been refused as expired
C9_Witness ==
    /\ last.op = "commit"
    /\ last.err = "ReservationExpired"
    /\ \E hold_id \in HoldIds :
          /\ Committed(Slab, hold_id)
          /\ header.current_ts >
                reservations.items[find_reservation(Slab, hold_id)].expiry_ms
          /\ hold_id \in DOMAIN quotes
          /\ quotes[hold_id].filled_qty > 0

\* C10: a successful reserve followed at once by the cancel of its hold_id
\* leaves every order's reserved_qty, book_seqno, the slice pool's used count
\* and the reservation pool's used count as they were before the reserve.
C10_CancelUndoesReserve ==
    \A account_idx \in Takers, side \in TakeSides, qty \in 1 .. MaxReserveQty,
       limit_px \in Prices :
        LET r == reserve(Slab, account_idx, 0, side, qty, limit_px, 1, 0)
        IN r.err = "Ok" =>
            LET c == cancel(r.s, r.hold_id)
            IN /\ c.err = "Ok"
               /\ \A o \in DOMAIN orders.items :
                     c.s.orders.items[o].reserved_qty = orders.items[o].reserved_qty
               /\ c.s.header.book_seqno = header.book_seqno
               /\ c.s.slices.used_count = slices.used_count
               /\ c.s.reservations.used_count = reservations.used_count

\* the latest hold reserved a positive quantity and has just been cancelled
C10_Witness ==
    /\ last.op = "cancel"
    /\ last.err = "Ok"
    /\ last.hold_id = header.next_hold_id - 1
    /\ last.hold_id \in DOMAIN quotes
    /\ quotes[last.hold_id].filled_qty > 0
    /\ slices.used_count = 0

(***************************************************************************)
(* Reached states in which the calls above have gone wrong.                *)
(***************************************************************************)
\* a reserve has failed with PoolFull and an order's reserved_qty is backed
\* by no slice of a used, uncommitted reservation
C1_Witness ==
    /\ last.op = "reserve"
    /\ last.err = "PoolFull"
    /\ \E o \in UsedIdx(orders) : orders.items[o].reserved_qty > HeldQty(Slab, o)

\* a reserve has failed with PoolFull and left a slice and a reservation
\* slot allocated
C2_Witness ==
    /\ last.op = "reserve"
    /\ last.err = "PoolFull"
    /\ slices.used_count = slices.cap
    /\ \E i \in UsedIdx(reservations) : reservations.items[i].hold_id = 0

\* a commit has failed with PoolFull after it changed the taker's position
C3_Witness ==
    /\ last.op = "commit"
    /\ last.err = "PoolFull"
    /\ positions.used_count = positions.cap
    /\ \E i \in UsedIdx(positions) :
          /\ positions.items[i].account_idx \in Takers
          /\ positions.items[i].qty > trades[(trade_head + MaxTrades - 1) % MaxTrades].qty
          /\ trade_count = 1

\* a cancelled hold resolves to a used reservation again
C4_Witness ==
    \E hold_id \in DOMAIN quotes :
        /\ quotes[hold_id].cancelled
        /\ find_reservation(Slab, hold_id) # NONE

\* a commit has failed and the open interest is not zero
C5_Witness ==
    /\ last.op = "commit"
    /\ last.err # "Ok"
    /\ OpenInterest(Slab, 0) # 0

\* a commit has failed with PoolFull while a reserved hold is neither
\* cancelled, committed nor expired
C6_Witness ==
    /\ last.op = "commit"
    /\ last.err = "PoolFull"
    /\ \E hold_id \in DOMAIN quotes :
          /\ ~quotes[hold_id].cancelled
          /\ Uncommitted(Slab, hold_id)
          /\ header.current_ts <= quotes[hold_id].expiry_ms
          /\ commit(Slab, hold_id, header.current_ts).err = "PoolFull"

\* a commit has succeeded with a filled_qty other than the one reserve returned
C7_Witness ==
    /\ last.op = "commit"
    /\ last.err = "Ok"
    /\ last.hold_id \in DOMAIN quotes
    /\ quotes[last.hold_id].filled_qty > 0
    /\ last.filled_qty # quotes[last.hold_id].filled_qty

\* a commit has succeeded and its reservation is still allocated
C8_Witness ==
    /\ last.op = "commit"
    /\ last.err = "Ok"
    /\ last.filled_qty > 0
    /\ Committed(Slab, last.hold_id)
    /\ reservations.used_count >= 1

(***************************************************************************)
(* The book lists.                                                         *)
(***************************************************************************)
LiveHeads == {"bids_head", "asks_head"}
PendingHeads == {"bids_pending_head", "asks_pending_head"}
BookHeads == LiveHeads \cup PendingHeads
HeadSide(hf) == IF hf \in {"bids_head", "bids_pending_head"} THEN "Buy" ELSE "Sell"

\* the order indices met by following next from idx, at most fuel of them; an
\* index outside the pool ends the sequence
RECURSIVE ListFrom(_, _, _)
ListFrom(s, idx, fuel) ==
    IF idx = NONE \/ fuel = 0 THEN <<>>
    ELSE IF idx \notin DOMAIN s.orders.items THEN <<idx>>
    ELSE <<idx>> \o ListFrom(s, s.orders.items[idx].next, fuel - 1)

\* the list under head field hf of instrument 0; a list longer than the pool
\* has a cycle
BookList(s, hf) == ListFrom(s, s.instruments[0][hf], s.orders.cap + 1)

PriceTimeOrdered(s, hf) ==
    LET l == BookList(s, hf)
    IN \A i \in 1 .. (Len(l) - 1) :
          LET a == s.orders.items[l[i]]
              b == s.orders.items[l[i + 1]]
          IN /\ IF HeadSide(hf) = "Buy" THEN a.price >= b.price
                ELSE a.price <= b.price
             /\ a.price = b.price => a.order_id < b.order_id

\* C11: in each of the four lists of the instrument, following next from the
\* head gives non-increasing prices for bids, non-decreasing prices for asks,
\* and ascending order_id among orders of equal price.
C11_PriceTimePriority ==
    \A hf \in BookHeads :
        /\ \A i \in 1 .. Len(BookList(Slab, hf)) :
              BookList(Slab, hf)[i] \in DOMAIN orders.items
        /\ PriceTimeOrdered(Slab, hf)

\* BatchOpen has promoted the youngest order to the head of a live list of
\* three, ahead of two older orders of one price
C11_Witness ==
    /\ last.op = "batch_open"
    /\ last.err = "Ok"
    /\ \E hf \in LiveHeads :
          LET l == BookList(Slab, hf)
          IN /\ Len(l) = 3
             /\ orders.items[l[1]].order_id = 3
             /\ orders.items[l[1]].account_idx \notin DlpAccounts
             /\ orders.items[l[2]].price = orders.items[l[3]].price

WellFormedList(s, hf) ==
    LET l == BookList(s, hf)
    IN /\ Len(l) <= s.orders.cap
       /\ \A i \in 1 .. Len(l) : l[i] \in DOMAIN s.orders.items
       /\ \A i, j \in 1 .. Len(l) : i # j => l[i] # l[j]
       /\ l # <<>> => s.orders.items[l[1]].prev = NONE
       /\ \A i \in 1 .. (Len(l) - 1) : s.orders.items[l[i + 1]].prev = l[i]

\* C12: every book list is a well-formed doubly-linked list: the head has
\* prev = none, prev(next(x)) = x for every order x that has a next, and
\* following next from the head reaches none without meeting an order twice.
C12_BookListsWellFormed == \A hf \in BookHeads : WellFormedList(Slab, hf)

\* a commit has filled and removed the head of a list and two orders are
\* left linked behind it
C12_Witness ==
    /\ last.op = "commit"
    /\ last.err = "Ok"
    /\ last.filled_qty = 3
    /\ orders.used_count = 2
    /\ \E hf \in LiveHeads : Len(BookList(Slab, hf)) = 2

(***************************************************************************)
(* Reserve walks.                                                          *)
(***************************************************************************)
\* a taker of this side with this limit accepts the price of a contra order
\* (a buyer pays at most limit_px, a seller takes at least limit_px)
Crosses(side, price, limit_px) ==
    IF side = "Buy" THEN price <= limit_px ELSE price >= limit_px

ContraHead(side) == IF side = "Buy" THEN "asks_head" ELSE "bids_head"

Available(order) == SatSub(order.qty, order.reserved_qty)

\* the unreserved quantity of the orders of the list l
RECURSIVE SumAvailable(_, _)
SumAvailable(s, l) ==
    IF l = <<>> THEN 0
    ELSE Available(s.orders.items[Head(l)]) + SumAvailable(s, Tail(l))

\* C13: no reserve locks a PENDING order, every PENDING order has
\* reserved_qty = 0, and a reserve for the whole live contra quantity whose
\* limit crosses the price of a promoted (LIVE, non-DLP) order with unreserved
\* quantity locks some of that order.
C13_PendingGate ==
    /\ \A o \in UsedIdx(orders) :
          orders.items[o].state = "PENDING" => orders.items[o].reserved_qty = 0
    /\ \A account_idx \in Takers, side \in Sides, limit_px \in Prices :
          LET whole == SumAvailable(Slab, BookList(Slab, ContraHead(side)))
          IN \A qty \in (BookReserveQtys \cup {whole}) \ {0} :
                LET r == reserve(Slab, account_idx, 0, side, qty, limit_px, 1, 0)
                IN \A o \in UsedIdx(orders) :
                      LET order == orders.items[o]
                      IN /\ order.state = "PENDING" =>
                               r.s.orders.items[o].reserved_qty = 0
                         /\ (/\ order.state = "LIVE"
                             /\ order.account_idx \notin DlpAccounts
                             /\ order.side # side
                             /\ Available(order) > 0
                             /\ Crosses(side, order.price, limit_px)
                             /\ qty = whole
                             /\ r.err = "Ok")
                            => r.s.orders.items[o].reserved_qty > order.reserved_qty

\* after a BatchOpen a Sell reserve has returned without locking anything
\* while a promoted bid at or above its limit has unreserved quantity
C13_Witness ==
    /\ last.op = "reserve"
    /\ last.err = "Ok"
    /\ last.side = "Sell"
    /\ last.filled_qty = 0
    /\ instruments[0].epoch >= 1
    /\ \E o \in UsedIdx(orders) :
          /\ orders.items[o].state = "LIVE"
          /\ orders.items[o].side = "Buy"
          /\ orders.items[o].account_idx \notin DlpAccounts
          /\ orders.items[o].reserved_qty = 0
          /\ orders.items[o].price >= last.limit_px

(***************************************************************************)
(* Promotion.                                                              *)
(***************************************************************************)
Range(l) == {l[i] : i \in 1 .. Len(l)}

\* C14: BatchOpen returns Ok, and when it has returned no order with
\* eligible_epoch <= the new epoch is left in a pending list: every order
\* that was PENDING with such an eligible_epoch is LIVE and linked in the
\* live list of its side.
C14_PromotePendingComplete ==
    \A current_ts \in Timestamps :
        LET r == process_batch_open(Slab, 0, current_ts)
            epoch == r.s.instruments[0].epoch
        IN /\ r.err = "Ok"
           /\ \A hf \in PendingHeads : \A o \in Range(BookList(r.s, hf)) :
                 r.s.orders.items[o].eligible_epoch > epoch
           /\ \A o \in UsedIdx(orders) :
                 (orders.items[o].state = "PENDING" /\ orders.items[o].eligible_epoch <= epoch)
                 => /\ r.s.orders.items[o].state = "LIVE"
                    /\ o \in Range(BookList(r.s, HeadField(orders.items[o].side, "LIVE")))

\* BatchOpen has promoted two orders of one side in one call
C14_Witness ==
    /\ last.op = "batch_open"
    /\ last.err = "Ok"
    /\ \A hf \in PendingHeads : BookList(Slab, hf) = <<>>
    /\ \E hf \in LiveHeads :
          Cardinality({o \in Range(BookList(Slab, hf)) :
                          /\ orders.items[o].account_idx \notin DlpAccounts
                          /\ orders.items[o].eligible_epoch = instruments[0].epoch}) >= 2

(***************************************************************************)
(* What a reserve takes.                                                   *)
(***************************************************************************)
\* the quantity a walk of the list l takes from each order, as a sequence
\* along l: orders are taken in list order, each gives
\* min(remaining, available), and the walk ends at the first order whose
\* price the taker's limit does not accept
RECURSIVE LimitWalk(_, _, _, _, _)
LimitWalk(s, l, side, limit_px, remaining) ==
    IF l = <<>> THEN <<>>
    ELSE LET order == s.orders.items[Head(l)]
         IN IF ~Crosses(side, order.price, limit_px) \/ remaining = 0
            THEN [i \in 1 .. Len(l) |-> 0]
            ELSE <<Min(remaining, Available(order))>>
                 \o LimitWalk(s, Tail(l), side, limit_px,
                              remaining - Min(remaining, Available(order)))

RECURSIVE SumSeq(_)
SumSeq(q) == IF q = <<>> THEN 0 ELSE Head(q) + SumSeq(Tail(q))

\* what the call that led from s to s2 locked of each order of the list l
Taken(s, s2, l) ==
    [i \in 1 .. Len(l) |->
        s2.orders.items[l[i]].reserved_qty - s.orders.items[l[i]].reserved_qty]

\* C15: a reserve that returns Ok locks, of every order of the live contra
\* list, what the walk in book order up to the first order beyond the limit
\* takes (min(remaining, available) of each order within the limit), and its
\* filled_qty is the total, min(qty, unreserved quantity within the limit).
C15_ReserveFillsWithinLimit ==
    \A account_idx \in Takers, side \in Sides, qty \in 1 .. MaxReserveQty,
       limit_px \in Prices :
        LET r == reserve(Slab, account_idx, 0, side, qty, limit_px, 1, 0)
            l == BookList(Slab, ContraHead(side))
            takes == LimitWalk(Slab, l, side, limit_px, qty)
        IN r.err = "Ok" =>
              /\ Taken(Slab, r.s, l) = takes
              /\ r.filled_qty = SumSeq(takes)

\* a Buy reserve has locked an ask priced above its limit
C15_Witness ==
    /\ last.op = "reserve"
    /\ last.err = "Ok"
    /\ last.side = "Buy"
    /\ last.filled_qty > 0
    /\ \E o \in UsedIdx(orders) :
          /\ orders.items[o].side = "Sell"
          /\ orders.items[o].reserved_qty > 0
          /\ orders.items[o].price > last.limit_px

\* the prices of the orders of l of which something was taken
TakenPrices(s, l, taken) ==
    {s.orders.items[l[i]].price : i \in {j \in 1 .. Len(l) : taken[j] > 0}}

RECURSIVE TakenNotional(_, _, _)
TakenNotional(s, l, taken) ==
    IF l = <<>> THEN 0
    ELSE Head(taken) * s.orders.items[Head(l)].price
         + TakenNotional(s, Tail(l), Tail(taken))

\* C16: for a reserve that returns Ok with filled_qty > 0, vwap_px is
\* floor(sum of take * price / filled_qty) and lies between the lowest and
\* the highest price taken, worst_px is the price of the last order taken,
\* and worst_px is not above limit_px for a Buy nor below it for a Sell.
C16_QuoteWithinLimit ==
    \A account_idx \in Takers, side \in Sides, qty \in 1 .. MaxReserveQty,
       limit_px \in Prices :
        LET r == reserve(Slab, account_idx, 0, side, qty, limit_px, 1, 0)
            l == BookList(Slab, ContraHead(side))
            taken == Taken(Slab, r.s, l)
            last_taken == CHOOSE i \in 1 .. Len(l) :
                             taken[i] > 0 /\ \A j \in (i + 1) .. Len(l) : taken[j] = 0
        IN (r.err = "Ok" /\ r.filled_qty > 0) =>
              /\ r.vwap_px = TakenNotional(Slab, l, taken) \div r.filled_qty
              /\ \A p \in TakenPrices(Slab, l, taken) :
                    \E lo, hi \in TakenPrices(Slab, l, taken) :
                        lo <= r.vwap_px /\ r.vwap_px <= hi
              /\ r.worst_px = orders.items[l[last_taken]].price
              /\ Crosses(side, r.worst_px, limit_px)

\* a Sell reserve has returned a worst_px below its limit
C16_Witness ==
    /\ last.op = "reserve"
    /\ last.err = "Ok"
    /\ last.side = "Sell"
    /\ last.filled_qty > 0
    /\ last.worst_px < last.limit_px

(***************************************************************************)
(* Expiry.                                                                 *)
(***************************************************************************)
\* C17: a commit with current_ts > expiry_ms of the reservation it finds
\* fails with ReservationExpired, executes no slice and leaves every
\* position, cash balance, order, slice, reservation and trade as it was; a
\* commit of an uncommitted reservation with current_ts <= expiry_ms does not
\* fail with ReservationExpired.
C17_ExpiryEnforcedAtCommit ==
    \A hold_id \in HoldIds, current_ts \in TimedTimestamps :
        find_reservation(Slab, hold_id) # NONE =>
            LET resv == reservations.items[find_reservation(Slab, hold_id)]
                r == commit(Slab, hold_id, current_ts)
                p == process_commit(Slab, hold_id, current_ts)
            IN /\ current_ts > resv.expiry_ms =>
                     /\ r.err = "ReservationExpired"
                     /\ r.fills = <<>>
                     /\ r.s = Slab
                     /\ p.err = "ReservationExpired"
                     /\ Observable(p.s) = Observable(Slab)
               /\ (current_ts <= resv.expiry_ms /\ ~resv.committed) =>
                     /\ r.err # "ReservationExpired"
                     /\ p.err # "ReservationExpired"

\* a commit of an uncommitted hold that locked a positive quantity has just
\* been refused as expired, and the hold's slices are still in place
C17_Witness ==
    /\ last.op = "commit"
    /\ last.err = "ReservationExpired"
    /\ trade_count = 0
    /\ \E hold_id \in DOMAIN quotes :
          /\ ~quotes[hold_id].cancelled
          /\ Uncommitted(Slab, hold_id)
          /\ header.current_ts > quotes[hold_id].expiry_ms
          /\ quotes[hold_id].filled_qty > 0
          /\ SliceList(Slab, reservations.items[find_reservation(Slab, hold_id)].slice_head,
                       slices.cap) = quotes[hold_id].slices

\* the hold is reserved, neither cancelled nor committed, and the slab's clock
\* is past its expiry
ExpiredHold(hold_id) ==
    /\ hold_id \in DOMAIN quotes
    /\ ~quotes[hold_id].cancelled
    /\ Uncommitted(Slab, hold_id)
    /\ header.current_ts > quotes[hold_id].expiry_ms

PositionOf(s, account_idx) ==
    LET f == FindPosition(s, s.accounts[account_idx].position_head, 0)
    IN IF f.err = "Ok" /\ f.found THEN f.idx ELSE NONE

PositionQty(s, account_idx) ==
    IF PositionOf(s, account_idx) = NONE THEN 0
    ELSE s.positions.items[PositionOf(s, account_idx)].qty

Flips(old_qty, new_qty) ==
    (old_qty > 0 /\ new_qty < 0) \/ (old_qty < 0 /\ new_qty > 0)

Reduces(old_qty, new_qty) ==
    (old_qty > 0 /\ new_qty > 0 /\ new_qty < old_qty)
    \/ (old_qty < 0 /\ new_qty < 0 /\ new_qty > old_qty)

\* C19: a successful commit whose fills all have one price and take the
\* taker's position through zero adds old_qty * (fill_price - entry_px) to the
\* taker's cash and leaves the position at the new quantity with entry_px =
\* fill_price, however many slices the fill has.
C19_FlipRealizesWholeLeg ==
    \A hold_id \in HoldIds, current_ts \in Timestamps :
        Uncommitted(Slab, hold_id) =>
            LET resv == reservations.items[find_reservation(Slab, hold_id)]
                taker == resv.account_idx
                r == commit(Slab, hold_id, current_ts)
                old_qty == PositionQty(Slab, taker)
                entry_px == positions.items[PositionOf(Slab, taker)].entry_px
                new_qty == IF resv.side = "Buy" THEN old_qty + r.filled_qty
                           ELSE old_qty - r.filled_qty
            IN (/\ r.err = "Ok"
                /\ r.fills # <<>>
                /\ \A i \in 1 .. Len(r.fills) : r.fills[i][3] = r.fills[1][3]
                /\ Flips(old_qty, new_qty))
               => /\ r.s.accounts[taker].cash =
                        accounts[taker].cash + old_qty * (r.fills[1][3] - entry_px)
                  /\ PositionQty(r.s, taker) = new_qty
                  /\ r.s.positions.items[PositionOf(r.s, taker)].entry_px = r.fills[1][3]

\* a commit of two sell fills at BidPrice has taken the taker from long to
\* short, and the taker's cash is not what the sale of the whole long leg,
\* bought at AskPrice, realizes
C19_Witness ==
    /\ last.op = "commit"
    /\ last.err = "Ok"
    /\ Len(last.fills) = 2
    /\ \A i \in 1 .. Len(last.fills) : last.fills[i][3] = BidPrice
    /\ \E account_idx \in Takers :
          /\ PositionQty(Slab, account_idx) < 0
          /\ PositionQty(Slab, account_idx) + last.filled_qty > 0
          /\ accounts[account_idx].cash #
                (PositionQty(Slab, account_idx) + last.filled_qty) * (BidPrice - AskPrice)

\* C20: a fill that moves a position toward zero without closing or flipping
\* it sets the position's qty to the new quantity and leaves its entry_px
\* as it was.
C20_ReducePreservesEntry ==
    \A account_idx \in Accounts, price \in Prices,
       qty_delta \in (0 - MaxExposure) .. MaxExposure :
        PositionOf(Slab, account_idx) # NONE =>
            LET pos == positions.items[PositionOf(Slab, account_idx)]
                r == update_position(Slab, account_idx, 0, qty_delta, price, 0)
            IN Reduces(pos.qty, pos.qty + qty_delta) =>
                  /\ r.err = "Ok"
                  /\ r.s.positions.items[PositionOf(Slab, account_idx)].qty = pos.qty + qty_delta
                  /\ r.s.positions.items[PositionOf(Slab, account_idx)].entry_px = pos.entry_px

\* a commit has sold part of the taker's long position, bought at AskPrice,
\* and the taker is still long at an entry price below AskPrice
C20_Witness ==
    /\ last.op = "commit"
    /\ last.err = "Ok"
    /\ last.fills # <<>>
    /\ \A i \in 1 .. Len(last.fills) : last.fills[i][3] = BidPrice
    /\ \E account_idx \in Takers :
          /\ PositionQty(Slab, account_idx) > 0
          /\ positions.items[PositionOf(Slab, account_idx)].entry_px < AskPrice

\* C21: no used position has qty = 0, and a fill that brings a position to
\* exactly 0 adds old_qty * (fill_price - entry_px) to the account's cash,
\* takes the position off the account's list and frees its slot.
C21_FlatClosesPosition ==
    /\ \A i \in UsedIdx(positions) : positions.items[i].qty # 0
    /\ \A account_idx \in Accounts, price \in Prices :
          PositionOf(Slab, account_idx) # NONE =>
              LET pos_idx == PositionOf(Slab, account_idx)
                  pos == positions.items[pos_idx]
                  r == update_position(Slab, account_idx, 0, 0 - pos.qty, price, 0)
              IN /\ r.err = "Ok"
                 /\ r.s.accounts[account_idx].cash =
                       accounts[account_idx].cash + pos.qty * (price - pos.entry_px)
                 /\ ~HasPosition(r.s, pos_idx)
                 /\ PositionOf(r.s, account_idx) = NONE
                 /\ r.s.accounts[account_idx].position_head = NONE
                 /\ r.s.positions.used_count = positions.used_count - 1
                 /\ r.s.positions.free_head = pos_idx

\* a commit has just sold the whole of the taker's long position below its
\* entry price: the taker has no position, a loss in cash, and the maker that
\* was short against the taker is flat as well
C21_Witness ==
    /\ last.op = "commit"
    /\ last.err = "Ok"
    /\ last.fills # <<>>
    /\ \A i \in 1 .. Len(last.fills) : last.fills[i][3] = BidPrice
    /\ positions.used_count = 0
    /\ \E account_idx \in Takers :
          /\ PositionOf(Slab, account_idx) = NONE
          /\ accounts[account_idx].cash < 0

(***************************************************************************)
(* What a commit does to the orders.                                       *)
(***************************************************************************)
\* the orders that the slices S of the slab s fill completely
FilledOrders(s, S) ==
    {s.slices.items[i].order_idx :
        i \in {j \in S : s.orders.items[s.slices.items[j].order_idx].qty = s.slices.items[j].qty}}

\* the list l without the orders of the set gone
Without(l, gone) ==
    LET Keep(o) == o \notin gone
    IN SelectSeq(l, Keep)

\* C22: after a successful commit every order referenced by a slice of the
\* reservation has its qty reduced by that slice's qty; an order whose qty
\* reached 0 is in no book list and its slot is free; an order with qty left
\* is still used, has reserved_qty reduced by the slice's qty, and the book
\* lists are the lists before the commit without the orders that were filled.
C22_CommitConsumesOrders ==
    \A hold_id \in 1 .. header.next_hold_id, current_ts \in Timestamps :
        find_reservation(Slab, hold_id) # NONE =>
            LET resv == reservations.items[find_reservation(Slab, hold_id)]
                S == ReachableSlices(Slab, resv.slice_head, slices.cap)
                r == commit(Slab, hold_id, current_ts)
            IN r.err = "Ok" =>
                  /\ \A hf \in BookHeads :
                        BookList(r.s, hf) = Without(BookList(Slab, hf), FilledOrders(Slab, S))
                  /\ \A i \in S :
                        LET o == slices.items[i].order_idx
                            q == slices.items[i].qty
                        IN /\ r.s.orders.items[o].qty = orders.items[o].qty - q
                           /\ orders.items[o].qty = q =>
                                 /\ ~HasOrder(r.s, o)
                                 /\ \A hf \in BookHeads : o \notin Range(BookList(r.s, hf))
                           /\ orders.items[o].qty > q =>
                                 /\ HasOrder(r.s, o)
                                 /\ r.s.orders.items[o].reserved_qty =
                                       orders.items[o].reserved_qty - q

\* a commit has just succeeded against an order other than the one its hold
\* had locked: the locked order was filled by commits that failed part-way,
\* its slot was taken by a later order, and that order has been filled in
\* part without ever having had a quantity reserved
C22_Witness ==
    /\ last.op = "commit"
    /\ last.err = "Ok"
    /\ last.hold_id \in DOMAIN quotes
    /\ Len(last.fills) = 1
    /\ Len(quotes[last.hold_id].slices) = 1
    /\ last.fills[1][1] # quotes[last.hold_id].slices[1][1]
    /\ \E o \in UsedIdx(orders) :
          /\ orders.items[o].order_id = last.fills[1][1]
          /\ orders.items[o].qty = orders.items[o].qty_orig - last.fills[1][2]
          /\ orders.items[o].qty > 0
          /\ orders.items[o].reserved_qty = 0

(***************************************************************************)
(* The slice lists of the reservations.                                    *)
(***************************************************************************)
\* the slice indices met from idx along next; NONE is appended when the walk
\* meets a slot that is not allocated or has not ended after fuel steps
RECURSIVE SliceChain(_, _, _)
SliceChain(s, idx, fuel) ==
    IF idx = NONE THEN <<>>
    ELSE IF fuel = 0 \/ ~HasSlice(s, idx) THEN <<NONE>>
    ELSE <<idx>> \o SliceChain(s, s.slices.items[idx].next, fuel - 1)

\* the slice list of the reservation at resv_idx ends, has no cycle,
\* references no order twice, and every order it references is allocated
SliceListSound(s, resv_idx) ==
    LET chain == SliceChain(s, s.reservations.items[resv_idx].slice_head, s.slices.cap)
    IN /\ NONE \notin Range(chain)
       /\ \A i, j \in 1 .. Len(chain) :
             i # j => s.slices.items[chain[i]].order_idx # s.slices.items[chain[j]].order_idx
       /\ \A i \in 1 .. Len(chain) : HasOrder(s, s.slices.items[chain[i]].order_idx)

\* the reservation at resv_idx is the one a successful reserve wrote, and its
\* slices are on the orders, for the quantities, that the reserve locked
SliceListAsReserved(s, resv_idx) ==
    LET resv == s.reservations.items[resv_idx]
    IN /\ resv.hold_id \in DOMAIN quotes
       /\ SliceList(s, resv.slice_head, s.slices.cap) = quotes[resv.hold_id].slices

\* C23: the slice list of every used, uncommitted reservation ends, has no
\* cycle, references no order twice, references allocated orders only, and
\* these are the orders that were locked when the hold was reserved.
C23_SliceListsSound ==
    \A resv_idx \in UsedIdx(reservations) :
        ~reservations.items[resv_idx].committed =>
            /\ SliceListSound(Slab, resv_idx)
            /\ SliceListAsReserved(Slab, resv_idx)

\* a reserve that failed with PoolFull has left a reservation slot allocated
\* that no reserve has written, a later commit has freed the slice its
\* slice_head names, and the slot is used, uncommitted and without a slice
\* list
C23_Witness ==
    /\ last.op = "commit"
    /\ last.err = "Ok"
    /\ \E resv_idx \in UsedIdx(reservations) :
          /\ ~reservations.items[resv_idx].committed
          /\ reservations.items[resv_idx].hold_id \notin DOMAIN quotes
          /\ reservations.items[resv_idx].slice_head # NONE
          /\ ~HasSlice(Slab, reservations.items[resv_idx].slice_head)
          /\ ~SliceListSound(Slab, resv_idx)

(***************************************************************************)
(* The book sequence number.                                               *)
(***************************************************************************)
\* the orders that are allocated and in the given state
OrdersIn(pool, state) == {i \in UsedIdx(pool) : pool.items[i].state = state}

\* a successful remove_order or a post (an allocation and insert_order) of
\* the slab raises book_seqno by one
BookCallsCount ==
    /\ \A o \in UsedIdx(orders) :
          LET r == remove_order(Slab, 0, o)
          IN r.err = "Ok" => r.s.header.book_seqno = header.book_seqno + 1
    /\ \A account_idx \in Makers, side \in Sides, price \in Prices, qty \in Qtys :
          LET r == post(Slab, account_idx, 0, side, price, qty)
          IN r.err = "Ok" => r.s.header.book_seqno = header.book_seqno + 1

\* what a step does to book_seqno
BookSeqnoStep ==
    /\ header'.book_seqno >= header.book_seqno
    /\ last'.op \in {"reserve", "cancel"} =>
          header'.book_seqno = header.book_seqno
    /\ (last'.op = "reserve" /\ last'.err = "Ok") =>
          /\ quotes'[last'.hold_id].book_seqno = header.book_seqno
          /\ \E i \in UsedIdx(reservations') :
                /\ reservations'.items[i].hold_id = last'.hold_id
                /\ reservations'.items[i].book_seqno = header.book_seqno
    /\ (last'.op = "post" /\ last'.err = "Ok") =>
          header'.book_seqno = header.book_seqno + 1
    /\ last'.op = "batch_open" =>
          header'.book_seqno = header.book_seqno
              + 2 * Cardinality(OrdersIn(orders, "PENDING") \ OrdersIn(orders', "PENDING"))
    /\ last'.op = "commit" =>
          header'.book_seqno = header.book_seqno
              + Cardinality(UsedIdx(orders) \ UsedIdx(orders'))

\* C24: book_seqno goes up by one on every successful insert_order and
\* remove_order, so by two for every order that BatchOpen promotes and by
\* one for every order that a commit fills completely; no step lowers it;
\* reserve and cancel leave it as it is, and the book_seqno that a reserve
\* returns and stores in the reservation is the header's at that reserve.
C24_BookSeqnoMonotonic == [](BookCallsCount) /\ [][BookSeqnoStep]_vars

\* BatchOpen has promoted an order, a hold reserved after it has filled the
\* order completely, and the hold's quote carries the number of that time:
\* one post, one removal from the pending list and one insertion before the
\* reserve, one removal after it
C24_Witness ==
    /\ last.op = "commit"
    /\ last.err = "Ok"
    /\ last.hold_id \in DOMAIN quotes
    /\ instruments[0].epoch > 0
    /\ UsedIdx(orders) = {}
    /\ quotes[last.hold_id].book_seqno = 3
    /\ header.book_seqno = 4

(***************************************************************************)
(* Hold ids.                                                               *)
(***************************************************************************)
\* the hold ids that successful reserves have returned start at 1, and no
\* two allocated reservations have the same hold id
HoldIdsDistinct ==
    /\ DOMAIN quotes # {} => 1 \in DOMAIN quotes
    /\ \A i, j \in UsedIdx(reservations) :
          i # j => reservations.items[i].hold_id # reservations.items[j].hold_id

\* a successful reserve returns a hold id above every one returned before
HoldIdStep ==
    (last'.op = "reserve" /\ last'.err = "Ok") =>
        /\ last'.hold_id >= 1
        /\ \A h \in DOMAIN quotes : last'.hold_id > h

\* C25: the first successful reserve returns hold_id 1, every later
\* successful reserve returns a hold_id above all that were returned before,
\* and no two reservations have the same hold_id.
C25_HoldIdsIncrease == [](HoldIdsDistinct) /\ [][HoldIdStep]_vars

\* the first reserve to succeed has returned hold id 2, the reserve before
\* it having failed with PoolFull after it took hold id 1
C25_Witness ==
    /\ last.op = "reserve"
    /\ last.err = "Ok"
    /\ last.hold_id = 2
    /\ DOMAIN quotes = {2}
    /\ header.next_hold_id = 3

(***************************************************************************)
(* List membership and order state.                                        *)
(***************************************************************************)
\* every order of a pending list of s is allocated and PENDING, every order
\* of a live list allocated and LIVE
MembershipMatchesState(s) ==
    \A hf \in BookHeads : \A o \in Range(BookList(s, hf)) :
        /\ HasOrder(s, o)
        /\ s.orders.items[o].state = IF hf \in LiveHeads THEN "LIVE" ELSE "PENDING"

\* C26: at every call boundary the orders reachable from a pending head are
\* PENDING and the orders reachable from a live head are LIVE, and so they
\* are after a promotion at the instrument's epoch (which leaves the orders
\* of the running batch pending) and after the next BatchOpen.
C26_MembershipMatchesState ==
    /\ MembershipMatchesState(Slab)
    /\ \A epoch \in {instruments[0].epoch, instruments[0].epoch + 1} :
          LET r == promote_pending(Slab, 0, epoch)
          IN /\ r.err = "Ok"
             /\ MembershipMatchesState(r.s)
             /\ \A o \in UsedIdx(orders) :
                   r.s.orders.items[o].state =
                       IF orders.items[o].eligible_epoch <= epoch THEN "LIVE"
                       ELSE orders.items[o].state

\* after a BatchOpen that promoted an order, an order of the same side has
\* been posted and waits in the pending list for the next batch
C26_Witness ==
    /\ last.op = "post"
    /\ last.err = "Ok"
    /\ instruments[0].epoch > 0
    /\ \E side \in Sides :
          /\ \E o \in Range(BookList(Slab, HeadField(side, "LIVE"))) :
                /\ orders.items[o].account_idx \notin DlpAccounts
                /\ orders.items[o].eligible_epoch <= instruments[0].epoch
          /\ \E o \in Range(BookList(Slab, HeadField(side, "PENDING"))) :
                orders.items[o].eligible_epoch > instruments[0].epoch

(***************************************************************************)
(* Pools.                                                                  *)
(***************************************************************************)
\* the two pools with the field that holds their freelist link
PoolsChecked == {<<orders, "next_free">>, <<slices, "index">>}

\* free applied to every index from i on
RECURSIVE FreeAllFrom(_, _, _)
FreeAllFrom(pool, nf, i) ==
    IF i >= pool.cap THEN pool
    ELSE FreeAllFrom(PoolFree(pool, nf, i), nf, i + 1)

\* C27: used() is the number of slots whose used flag is set and at most N;
\* alloc returns none exactly when all N slots are used; after freeing every
\* allocated slot used() is 0; alloc right after free(i) of a used slot
\* returns i.
C27_PoolAccounting ==
    \A p \in PoolsChecked :
        LET pool == p[1]
            nf == p[2]
        IN /\ used(pool) = Cardinality(UsedIdx(pool))
           /\ used(pool) <= pool.cap
           /\ is_full(pool) <=> (UsedIdx(pool) = 0 .. (pool.cap - 1))
           /\ (PoolAlloc(pool, nf).idx = NONE) <=> (UsedIdx(pool) = 0 .. (pool.cap - 1))
           /\ used(PoolAlloc(pool, nf).pool) =
                  Cardinality(UsedIdx(PoolAlloc(pool, nf).pool))
           /\ used(FreeAllFrom(pool, nf, 0)) = 0
           /\ UsedIdx(FreeAllFrom(pool, nf, 0)) = {}
           /\ \A i \in UsedIdx(pool) :
                  /\ used(PoolFree(pool, nf, i)) = used(pool) - 1
                  /\ PoolAlloc(PoolFree(pool, nf, i), nf).idx = i

\* an alloc has found the order pool full, and in the slice pool frees have
\* left a free slot below a used one
C27_Witness ==
    /\ last.op = "alloc"
    /\ last.err = "None"
    /\ used(orders) = PoolN
    /\ \E i \in UsedIdx(slices) : slices.free_head < i

\* C28: get and get_mut return none for an index that was freed, was never
\* allocated or is out of range; free of a free or out-of-range index
\* changes nothing; alloc never returns an index in use.  An index is
\* accessible only from the alloc that returns it until its free: a new
\* pool has none, alloc adds the returned index alone, free removes its
\* index alone.
C28_FreedSlotInaccessible ==
    /\ \A idx \in PoolIdx :
          /\ ~PoolGet(PoolSlab.orders, idx).some
          /\ ~PoolGetMut(PoolSlab.slices, idx).some
    /\ \A p \in PoolsChecked :
        LET pool == p[1]
            nf == p[2]
            a == PoolAlloc(pool, nf)
        IN /\ ~PoolGet(pool, pool.cap).some
           /\ ~PoolGetMut(pool, pool.cap).some
           /\ a.idx # NONE =>
                 /\ a.idx < pool.cap
                 /\ ~pool.items[a.idx].used
                 /\ ~PoolGet(pool, a.idx).some
                 /\ PoolGet(a.pool, a.idx).some
           /\ \A idx \in PoolIdx :
                 /\ PoolGet(pool, idx).some <=> PoolGetMut(pool, idx).some
                 /\ idx # a.idx => PoolGet(a.pool, idx) = PoolGet(pool, idx)
                 /\ ~PoolGet(PoolFree(pool, nf, idx), idx).some
                 /\ ~PoolGetMut(PoolFree(pool, nf, idx), idx).some
                 /\ \A other \in PoolIdx \ {idx} :
                       PoolGet(PoolFree(pool, nf, idx), other) = PoolGet(pool, other)
                 /\ ~PoolGet(pool, idx).some => PoolFree(pool, nf, idx) = pool
                 /\ PoolFree(PoolFree(pool, nf, idx), nf, idx) = PoolFree(pool, nf, idx)

\* a free of a free or out-of-range index has just returned, with slots of
\* both pools in use and freed slots in their freelists
C28_Witness ==
    /\ last.op = "free"
    /\ last.err = "Ignored"
    /\ used(orders) > 0
    /\ used(slices) > 0
    /\ orders.free_head < PoolN
    /\ orders.items[orders.free_head].next_free < orders.free_head

(***************************************************************************)
(* Rejected reserves; the ttl cap.                                         *)
(***************************************************************************)
\* the errors of reserve whose condition the input meets
ReserveRejections(s, instrument_idx, qty, limit_px) ==
    IF instrument_idx >= s.instrument_count THEN {"InvalidInstrument"}
    ELSE {e \in {"PriceNotAligned"} : limit_px % s.instruments[instrument_idx].tick # 0}
         \cup {e \in {"QuantityNotAligned"} : qty % s.instruments[instrument_idx].lot # 0}
         \cup {e \in {"PoolFull"} : UsedIdx(s.reservations) = DOMAIN s.reservations.items}

\* the errors of process_reserve whose condition the input meets
ProcessRejections(s, instrument_idx, qty, limit_px, ttl_ms) ==
    {e \in {"InvalidInstruction"} : ttl_ms = 0}
    \cup {e \in {"InvalidQuantity"} : qty = 0}
    \cup ReserveRejections(s, instrument_idx, qty, limit_px)

\* r is a failure with one of errs if there is any, one that left s as it was
RejectedAs(s, r, errs) ==
    errs # {} =>
        /\ r.err \in errs
        /\ r.s = s
        /\ r.s.header.next_hold_id = s.header.next_hold_id
        /\ used(r.s.reservations) = used(s.reservations)
        /\ used(r.s.slices) = used(s.slices)
        /\ \A o \in DOMAIN s.orders.items :
              r.s.orders.items[o].reserved_qty = s.orders.items[o].reserved_qty

\* C29: a reserve with an unknown instrument fails with InvalidInstrument,
\* with a limit_px off the tick with PriceNotAligned, with a qty off the lot
\* with QuantityNotAligned, with no free reservation slot with PoolFull, and
\* through process_reserve with ttl_ms = 0 with InvalidInstruction and with
\* qty = 0 with InvalidQuantity (with several of them, with one of them);
\* each time the slab is left as it was: next_hold_id, the used counts of the
\* reservation and slice pools and every order's reserved_qty.
C29_RejectsUntouched ==
    \A account_idx \in Takers, instrument_idx \in AlignInstruments, side \in TakeSides, qty \in AlignReserveQtys, limit_px \in AlignLimits, ttl_ms \in AlignTtls :
        /\ RejectedAs(Slab,
                      process_reserve(Slab, account_idx, instrument_idx, side, qty,
                                      limit_px, ttl_ms, 0),
                      ProcessRejections(Slab, instrument_idx, qty, limit_px, ttl_ms))
        /\ RejectedAs(Slab,
                      reserve(Slab, account_idx, instrument_idx, side, qty,
                              limit_px, ttl_ms, 0),
                      ReserveRejections(Slab, instrument_idx, qty, limit_px))

\* a reserve has failed with PoolFull for want of a reservation slot, with a
\* slice slot free and an order resting in the book
C29_Witness ==
    /\ last.op = "reserve"
    /\ last.err = "PoolFull"
    /\ is_full(reservations)
    /\ ~is_full(slices)
    /\ \A i \in UsedIdx(reservations) : reservations.items[i].hold_id > 0
    /\ UsedIdx(orders) # {}
    /\ instruments[0].tick = AlignTick

\* the reservation of s with the hold id, if there is one, has the expiry
Expires(s, hold_id, expiry_ms) ==
    /\ find_reservation(s, hold_id) # NONE
    /\ s.reservations.items[find_reservation(s, hold_id)].expiry_ms = expiry_ms

\* C30: a successful reserve through process_reserve returns, and stores in
\* its reservation, expiry_ms = header.current_ts + ttl_ms if ttl_ms is at
\* most 120000 and header.current_ts + 120000 if it is more, so that
\* expiry_ms - header.current_ts is at most 120000 (the clock of these runs
\* stays far below the value at which the sum saturates).
C30_TtlCapped ==
    \A account_idx \in Takers, side \in TakeSides, qty \in ReserveQtys, limit_px \in Limits, ttl_ms \in Ttls :
        LET r == process_reserve(Slab, account_idx, 0, side, qty, limit_px, ttl_ms, 0)
        IN r.err = "Ok" =>
              /\ r.expiry_ms = header.current_ts + (IF ttl_ms <= 120000 THEN ttl_ms ELSE 120000)
              /\ r.expiry_ms - header.current_ts <= 120000
              /\ Expires(r.s, r.hold_id, r.expiry_ms)

\* after a commit has moved the clock, a reserve has succeeded with the
\* longest expiry there is
C30_Witness ==
    /\ last.op = "reserve"
    /\ last.err = "Ok"
    /\ header.current_ts > 0
    /\ last.hold_id \in DOMAIN quotes
    /\ quotes[last.hold_id].expiry_ms = header.current_ts + MAX_TTL_MS
    /\ Expires(Slab, last.hold_id, header.current_ts + MAX_TTL_MS)

(***************************************************************************)
(* Cancel, twice.                                                          *)
(***************************************************************************)
\* the quantity that the slices of chain hold on the order at order_idx
RECURSIVE LockedOn(_, _, _)
LockedOn(s, chain, order_idx) ==
    IF chain = <<>> THEN 0
    ELSE (IF Head(chain) # NONE /\ s.slices.items[Head(chain)].order_idx = order_idx
          THEN s.slices.items[Head(chain)].qty ELSE 0)
         + LockedOn(s, Tail(chain), order_idx)

\* c is what a successful cancel of the reservation at resv_idx makes of s:
\* every allocated order has had the quantity of the slices that the
\* reservation holds on it taken off its reserved_qty once (by the
\* saturating subtraction of free_slices), these slices and the reservation
\* are free, and nothing else is
ReleasedOnce(s, c, resv_idx) ==
    LET chain == SliceChain(s, s.reservations.items[resv_idx].slice_head, s.slices.cap)
    IN /\ NONE \notin Range(chain)
       /\ c.orders.used_count = s.orders.used_count
       /\ \A o \in DOMAIN s.orders.items \ UsedIdx(s.orders) :
             c.orders.items[o] = s.orders.items[o]
       /\ \A o \in UsedIdx(s.orders) :
             c.orders.items[o].reserved_qty =
                 SatSub(s.orders.items[o].reserved_qty, LockedOn(s, chain, o))
       /\ UsedIdx(c.slices) = UsedIdx(s.slices) \ Range(chain)
       /\ used(c.slices) = used(s.slices) - Len(chain)
       /\ UsedIdx(c.reservations) = UsedIdx(s.reservations) \ {resv_idx}
       /\ used(c.reservations) = used(s.reservations) - 1

\* a cancel of the hold on s fails and leaves s as it is
CancelledAlready(s, hold_id) ==
    /\ process_cancel(s, hold_id).err # "Ok"
    /\ process_cancel(s, hold_id).s = s
    /\ cancel(s, hold_id).err # "Ok"
    /\ cancel(s, hold_id).s = s

\* C31: a cancel that succeeds releases the quantity of each slice of the
\* hold once, and a second cancel with the same hold_id fails and changes
\* nothing: no reserved_qty, no slot of the slice pool and no slot of the
\* reservation pool.
C31_CancelIdempotent ==
    \A hold_id \in 1 .. header.next_hold_id :
        LET c == process_cancel(Slab, hold_id)
        IN c.err = "Ok" =>
              /\ ReleasedOnce(Slab, c.s, find_reservation(Slab, hold_id))
              /\ CancelledAlready(c.s, hold_id)

\* a cancel has just released a hold of two slices, and an order that the
\* hold had locked stays locked by the other hold
C31_Witness ==
    /\ last.op = "cancel"
    /\ last.err = "Ok"
    /\ last.hold_id \in DOMAIN quotes
    /\ Len(quotes[last.hold_id].slices) = 2
    /\ find_reservation(Slab, last.hold_id) = NONE
    /\ \E o \in UsedIdx(orders) :
          /\ orders.items[o].reserved_qty > 0
          /\ \E i \in 1 .. 2 : quotes[last.hold_id].slices[i][1] = orders.items[o].order_id

(***************************************************************************)
(* Margin.                                                                 *)
(***************************************************************************)
MaxMultiplier == 4
MarginContractSizes == {1, 3}
MarginQtys == (0 - MaxRiskDelta) .. MaxRiskDelta

ScalesWithinFloor(m, mk, k, value) ==
    /\ k * m <= mk
    /\ mk <= (k * m) + (k - 1)
    /\ value % 10000 = 0 => mk = k * m

RECURSIVE SumOver(_, _)
SumOver(S, f) ==
    IF S = {} THEN 0
    ELSE LET i == CHOOSE x \in S : TRUE
         IN f[i] + SumOver(S \ {i}, f)

\* the initial margin of the positions of the account, the quantity held in
\* the instrument being new_qty
ProjectedIm(s, account_idx, instrument_idx, new_qty) ==
    LET others == {i \in UsedIdx(s.positions) :
                      /\ s.positions.items[i].account_idx = account_idx
                      /\ s.positions.items[i].instrument_idx # instrument_idx}
    IN calculate_im(new_qty, s.instruments[instrument_idx].contract_size,
                    s.instruments[instrument_idx].index_price, s.header.imr)
       + SumOver(others,
                 [i \in others |->
                     calculate_im(s.positions.items[i].qty,
                                  s.instruments[s.positions.items[i].instrument_idx].contract_size,
                                  s.instruments[s.positions.items[i].instrument_idx].index_price,
                                  s.header.imr)])

\* the quantity of the account in the instrument after a trade of qty_delta
ProjectedQty(s, account_idx, instrument_idx, qty_delta) ==
    get_position_qty(s, account_idx, instrument_idx) + qty_delta

\* C33: check_margin_pre_trade(account, instrument, qty_delta) returns true
\* exactly when the equity of the account is at least the initial margin of
\* its positions with the quantity in the instrument replaced by
\* current_qty + qty_delta, for a qty_delta that increases, reduces, closes
\* or flips the position.
C33_PreTradeChecksProjectedIm ==
    \A account_idx \in Accounts, qty_delta \in RiskDeltas :
        LET r == check_margin_pre_trade(Slab, account_idx, 0, qty_delta)
        IN /\ r.err = "Ok"
           /\ r.ok <=> (calculate_equity(Slab, account_idx).equity >=
                           ProjectedIm(Slab, account_idx, 0,
                                       ProjectedQty(Slab, account_idx, 0, qty_delta)))

\* check_margin_pre_trade has returned false, and it does for a trade that
\* closes the position of an account whose equity is not negative
C33_Witness ==
    /\ last.op = "check_margin_pre_trade"
    /\ last.err = "false"
    /\ \E account_idx \in Accounts, qty_delta \in CheckDeltas :
          /\ ProjectedQty(Slab, account_idx, 0, qty_delta) = 0
          /\ get_position_qty(Slab, account_idx, 0) # 0
          /\ calculate_equity(Slab, account_idx).equity >= 0
          /\ ~check_margin_pre_trade(Slab, account_idx, 0, qty_delta).ok

(***************************************************************************)
(* The trade ring.                                                         *)
(***************************************************************************)
\* the slices that the call of this step has executed: the fills of a commit
ExecutedNow == IF last'.op = "commit" THEN last'.fills ELSE <<>>

\* the entries of fills that this step writes at slot, their k-th going to
\* trade_head + k - 1 modulo the capacity
WrittenAt(slot, fills) ==
    {k \in 1 .. Len(fills) : (trade_head + (k - 1)) % MaxTrades = slot}

Latest(S) == CHOOSE k \in S : \A j \in S : j <= k

TradeRingStep ==
    /\ trade_head' = (trade_head + Len(ExecutedNow)) % MaxTrades
    /\ trade_count' = IF trade_count + Len(ExecutedNow) < MaxTrades
                      THEN trade_count + Len(ExecutedNow) ELSE MaxTrades
    /\ \A slot \in 0 .. (MaxTrades - 1) :
          IF WrittenAt(slot, ExecutedNow) = {}
          THEN trades'[slot] = trades[slot]
          ELSE /\ trades'[slot].order_id_maker = ExecutedNow[Latest(WrittenAt(slot, ExecutedNow))][1]
               /\ trades'[slot].qty = ExecutedNow[Latest(WrittenAt(slot, ExecutedNow))][2]
               /\ trades'[slot].price = ExecutedNow[Latest(WrittenAt(slot, ExecutedNow))][3]
               /\ trades'[slot].ts = header'.current_ts

TradeRingBounds ==
    /\ trade_head \in 0 .. (MaxTrades - 1)
    /\ trade_count \in 0 .. MaxTrades
    /\ trade_count < MaxTrades => trade_head = trade_count

\* C34: every slice that a commit executes records one trade with the id and
\* the price of the maker order and the quantity of the slice, written at
\* trade_head, which then advances by one modulo the capacity of the ring, so
\* that the oldest entry is overwritten once the ring is full; trade_count
\* grows by one per trade up to the capacity; no other call writes the ring.
C34_TradeRingAppends == [](TradeRingBounds) /\ [][TradeRingStep]_vars

\* a commit of two slices has just wrapped the ring: a trade recorded
\* earlier was overwritten by the second slice
C34_Witness ==
    /\ last.op = "commit"
    /\ last.err = "Ok"
    /\ Len(last.fills) = 2
    /\ trade_count = MaxTrades
    /\ trade_head = 1
    /\ trades[0].order_id_maker = last.fills[2][1]
    /\ trades[0].qty = last.fills[2][2]
    /\ trades[1].order_id_maker = last.fills[1][1]
    /\ \E hold_id \in DOMAIN quotes :
          hold_id # last.hold_id /\ Committed(Slab, hold_id)

(***************************************************************************)
(* The capability.                                                         *)
(***************************************************************************)
\* r is what a debit of amount by (user, slab, mint) at current_ts may make
\* of the capability c
DebitAsAllowed(c, r, amount, user, slab, mint, current_ts) ==
    /\ r.err = "Ok" <=> /\ ~c.burned
                        /\ current_ts <= c.expiry_ts
                        /\ <<user, slab, mint>> = <<c.scope_user, c.scope_slab, c.scope_mint>>
                        /\ amount <= c.remaining
    /\ r.err = "Ok" => r.cap = [c EXCEPT !.remaining = c.remaining - amount,
                                         !.nonce = c.nonce + 1]
    /\ r.err # "Ok" => r.cap = c

CapWithinAmount ==
    /\ cap.remaining >= 0
    /\ debited + cap.remaining = cap.amount_max
    /\ debited <= cap.amount_max
    /\ burn(cap).burned
    /\ \A amount \in CapAmounts, user \in CapUsers, slab \in CapSlabs, mint \in CapMints, current_ts \in CapTimestamps :
          /\ DebitAsAllowed(cap, debit(cap, amount, user, slab, mint, current_ts),
                            amount, user, slab, mint, current_ts)
          /\ debit(burn(cap), amount, user, slab, mint, current_ts).err # "Ok"

BurnedStays == cap.burned => cap'.burned /\ cap'.remaining = cap.remaining

\* C35: a debit succeeds only if the cap is not burned, current_ts is at
\* most expiry_ts, the (user, slab, mint) of the call is the scope of the
\* cap and the amount is at most remaining; a debit that succeeds lowers
\* remaining by the amount and one that fails changes nothing, so that the
\* debits that succeeded sum to amount_max - remaining, never more than
\* amount_max; a burned cap stays burned and no debit of it succeeds.
C35_CapNeverOverdrawn == [](CapWithinAmount) /\ [][BurnedStays]_vars

\* two debits or more have drawn the whole amount of the cap
C35_Witness ==
    /\ last.op = "debit"
    /\ last.err = "Ok"
    /\ last.filled_qty > 0
    /\ cap.nonce >= 2
    /\ cap.remaining = 0
    /\ debited = cap.amount_max
    /\ debited > last.filled_qty

(***************************************************************************)
(* The vault.                                                              *)
(***************************************************************************)
\* r, the result of a withdraw or of a pledge of amount on the vault v,
\* fails exactly when the amount is above what is not pledged, and then
\* leaves v as it was
FailsAboveUnpledged(v, r, amount) ==
    /\ r.err # "Ok" <=> amount > v.balance - v.total_pledged
    /\ r.err # "Ok" => r.vault = v

Solvent(v) == v.total_pledged <= v.balance

\* C40: total_pledged <= balance at the start is kept by every deposit,
\* withdraw, pledge and unpledge; a withdraw and a pledge fail, and leave
\* the vault unchanged, exactly when the amount is above
\* balance - total_pledged.
C40_VaultStaysSolvent ==
    /\ Solvent(vault)
    /\ \A amount \in VaultAmounts :
          /\ FailsAboveUnpledged(vault, withdraw(vault, amount), amount)
          /\ FailsAboveUnpledged(vault, pledge(vault, amount), amount)
          /\ amount > 0 => FailsAboveUnpledged(vault, process_withdraw(vault, amount), amount)
          /\ Solvent(withdraw(vault, amount).vault)
          /\ Solvent(pledge(vault, amount).vault)
          /\ Solvent(unpledge(vault, amount))
          /\ Solvent(deposit(vault, amount))
          /\ withdraw(vault, amount).err = "Ok" =>
                withdraw(vault, amount).vault = [vault EXCEPT !.balance = vault.balance - amount]
          /\ pledge(vault, amount).err = "Ok" =>
                pledge(vault, amount).vault = [vault EXCEPT !.total_pledged = vault.total_pledged + amount]

\* a withdraw of no more than the balance was refused because of the pledges
C40_Witness ==
    /\ last.op = "withdraw"
    /\ last.err # "Ok"
    /\ last.filled_qty <= vault.balance
    /\ last.filled_qty > vault.balance - vault.total_pledged
    /\ vault.total_pledged > 0

(***************************************************************************)
(* The charge quoted at reserve and the debit at commit.                   *)
(***************************************************************************)
\* the hold is as its reserve left it: not cancelled, and its reservation
\* still links the slices that the reserve returned
QuoteStands(hold_id) ==
    /\ ~quotes[hold_id].cancelled
    /\ find_reservation(Slab, hold_id) # NONE
    /\ SliceList(Slab, reservations.items[find_reservation(Slab, hold_id)].slice_head,
                 slices.cap) = quotes[hold_id].slices

\* C36: the total_debit of every commit that succeeds is at most the
\* max_charge that the reserve of the hold returned.
C36_QuotedChargeBoundsDebit ==
    \A hold_id \in DOMAIN quotes, current_ts \in Timestamps :
        (/\ QuoteStands(hold_id)
         /\ process_commit(Slab, hold_id, current_ts).err = "Ok") =>
            process_commit(Slab, hold_id, current_ts).total_debit <= quotes[hold_id].max_charge

\* a hold whose slices are at two prices was committed, and the notional of
\* its two fills alone is above the max_charge of its reserve
C36_Witness ==
    /\ last.op = "commit"
    /\ last.err = "Ok"
    /\ last.hold_id \in DOMAIN quotes
    /\ ~quotes[last.hold_id].cancelled
    /\ Len(last.fills) = 2
    /\ last.fills = quotes[last.hold_id].slices
    /\ last.fills[1][3] # last.fills[2][3]
    /\ last.fills[1][2] * last.fills[1][3] + last.fills[2][2] * last.fills[2][3]
          > quotes[last.hold_id].max_charge

(***************************************************************************)
(* The clock of the slab at batch open.                                    *)
(***************************************************************************)
\* r is a reserve with ttl_ms issued right after a batch open at ts: its
\* hold expires at ts + the capped ttl and no commit up to then finds it
\* expired
ReservedAfterOpen(r, ts, ttl_ms) ==
    r.err = "Ok" =>
        /\ r.expiry_ms = ts + Min(ttl_ms, MAX_TTL_MS)
        /\ \A current_ts \in ts .. (ts + Min(ttl_ms, MAX_TTL_MS)) :
              process_commit(r.s, r.hold_id, current_ts).err # "ReservationExpired"

\* b is what BatchOpen(instrument 0, ts) returned
BatchOpenedAt(b, ts) ==
    b.err = "Ok" =>
        /\ b.s.header.current_ts = ts
        /\ \A account_idx \in Takers, side \in TakeSides, qty \in ReserveQtys, limit_px \in Limits :
              ReservedAfterOpen(process_reserve(b.s, account_idx, 0, side, qty, limit_px, 1, 0),
                                ts, 1)

\* C37: after BatchOpen(instrument, ts) succeeds header.current_ts = ts, so
\* that the reserve issued next expires at ts + the capped ttl and can be
\* committed at every current_ts from ts to that expiry.
C37_BatchOpenSetsClock ==
    \A ts \in TimedTimestamps : BatchOpenedAt(process_batch_open(Slab, 0, ts), ts)

\* the batch was opened at a time after the clock of the header, and the
\* hold reserved since then expires before the time of the batch open
C37_Witness ==
    /\ last.op = "reserve"
    /\ last.err = "Ok"
    /\ last.filled_qty > 0
    /\ instruments[0].epoch > 0
    /\ instruments[0].batch_open_ms > header.current_ts
    /\ quotes[last.hold_id].expiry_ms < instruments[0].batch_open_ms

(***************************************************************************)
(* The position lists of the accounts.                                     *)
(***************************************************************************)
\* the positions on the list that starts at idx, in the order of the list
RECURSIVE PositionChain(_, _, _)
PositionChain(s, idx, fuel) ==
    IF idx = NONE \/ fuel = 0 \/ ~HasPosition(s, idx) THEN <<>>
    ELSE <<idx>> \o PositionChain(s, s.positions.items[idx].next_in_account, fuel - 1)

\* where the list that starts at idx ends within fuel steps: NONE for a list
\* that is finite and leads through allocated positions only
RECURSIVE PositionChainEnd(_, _, _)
PositionChainEnd(s, idx, fuel) ==
    IF idx = NONE \/ fuel = 0 \/ ~HasPosition(s, idx) THEN idx
    ELSE PositionChainEnd(s, s.positions.items[idx].next_in_account, fuel - 1)

ChainOf(account_idx) ==
    PositionChain(Slab, accounts[account_idx].position_head, positions.cap)

OnChain(account_idx) == {ChainOf(account_idx)[k] : k \in 1 .. Len(ChainOf(account_idx))}

\* C39: every account has at most one used position per instrument, every
\* used position is on the position list of the account named in its
\* account_idx and of no other, and the list of each account is free of
\* cycles.
C39_PositionListsWellFormed ==
    /\ \A i, j \in UsedIdx(positions) :
          (/\ positions.items[i].account_idx = positions.items[j].account_idx
           /\ positions.items[i].instrument_idx = positions.items[j].instrument_idx)
          => i = j
    /\ \A i \in UsedIdx(positions), account_idx \in Accounts :
          i \in OnChain(account_idx) <=> positions.items[i].account_idx = account_idx
    /\ \A account_idx \in Accounts :
          /\ PositionChainEnd(Slab, accounts[account_idx].position_head, positions.cap) = NONE
          /\ Cardinality(OnChain(account_idx)) = Len(ChainOf(account_idx))

\* the taker holds a position in instrument 1 alone after three commits, and
\* the slot of the position in instrument 0 that the taker opened first, and
\* that stood behind the head of the list, is free
C39_Witness ==
    /\ last.op = "commit"
    /\ last.err = "Ok"
    /\ trade_count = MaxTrades
    /\ header.next_hold_id > MaxPortfolioHolds
    /\ \E account_idx \in Takers :
          /\ Len(ChainOf(account_idx)) = 1
          /\ positions.items[ChainOf(account_idx)[1]].instrument_idx = 1
          /\ ~positions.items[0].used
          /\ positions.items[0].account_idx = account_idx
          /\ positions.items[0].instrument_idx = 0
          /\ positions.used_count = 2

(***************************************************************************)
(* What a commit leaves alone.                                             *)
(***************************************************************************)
\* an order without its links into the book list
Unlinked(o) == [o EXCEPT !.next = NONE, !.prev = NONE]

\* the orders that the slices S reference, and the accounts that a commit of
\* the reservation resv over these slices trades for
LockedOrders(s, S) == {s.slices.items[i].order_idx : i \in S}

Parties(s, resv, S) ==
    {resv.account_idx} \cup
    {s.orders.items[o].account_idx : o \in LockedOrders(s, S) \cap DOMAIN s.orders.items}

\* from the slab s the commit of the reservation at resv_idx, whose slices
\* are S, made the slab t
TouchesOnlyLocked(s, t, resv_idx, S) ==
    /\ \A o \in DOMAIN s.orders.items \ LockedOrders(s, S) :
          Unlinked(t.orders.items[o]) = Unlinked(s.orders.items[o])
    /\ \A hf \in BookHeads :
          Without(BookList(t, hf), LockedOrders(s, S)) =
              Without(BookList(s, hf), LockedOrders(s, S))
    /\ \A p \in DOMAIN s.positions.items :
          t.positions.items[p] # s.positions.items[p] =>
              \/ /\ s.positions.items[p].used
                 /\ s.positions.items[p].account_idx \in Parties(s, s.reservations.items[resv_idx], S)
              \/ /\ ~s.positions.items[p].used
                 /\ t.positions.items[p].used
                 /\ t.positions.items[p].account_idx \in Parties(s, s.reservations.items[resv_idx], S)
    /\ \A a \in DOMAIN s.accounts \ Parties(s, s.reservations.items[resv_idx], S) :
          t.accounts[a] = s.accounts[a]
    /\ \A i \in DOMAIN s.reservations.items \ {resv_idx} :
          t.reservations.items[i] = s.reservations.items[i]
    /\ \A i \in DOMAIN s.slices.items \ S :
          t.slices.items[i] = s.slices.items[i]

CommitTouchesOnlyLocked(s, r, resv_idx) ==
    r.err = "Ok" =>
        TouchesOnlyLocked(s, r.s, resv_idx,
            ReachableSlices(s, s.reservations.items[resv_idx].slice_head, s.slices.cap))

\* C38: a successful commit of a hold changes qty and reserved_qty of the
\* orders referenced by the slices of the hold only, positions and cash of
\* the taker of the hold and of the owners of these orders only, and leaves
\* every other reservation, every slice of another reservation and every
\* order that is not referenced, its fields and its place in the book list,
\* as they were.
C38_CommitTouchesOnlyLocked ==
    \A hold_id \in 1 .. header.next_hold_id, current_ts \in Timestamps :
        find_reservation(Slab, hold_id) # NONE =>
            CommitTouchesOnlyLocked(Slab, process_commit(Slab, hold_id, current_ts),
                                    find_reservation(Slab, hold_id))

\* a commit has just succeeded while another hold stands with its slices as
\* reserved, on an order that the commit did not fill
C38_Witness ==
    /\ last.op = "commit"
    /\ last.err = "Ok"
    /\ last.fills # <<>>
    /\ \E hold_id \in DOMAIN quotes \ {last.hold_id} :
          /\ ~quotes[hold_id].cancelled
          /\ find_reservation(Slab, hold_id) # NONE
          /\ ~reservations.items[find_reservation(Slab, hold_id)].committed
          /\ quotes[hold_id].slices # <<>>
          /\ SliceList(Slab, reservations.items[find_reservation(Slab, hold_id)].slice_head,
                       slices.cap) = quotes[hold_id].slices
          /\ \A i \in 1 .. Len(quotes[hold_id].slices), j \in 1 .. Len(last.fills) :
                quotes[hold_id].slices[i][1] # last.fills[j][1]
          /\ \E o \in UsedIdx(orders) :
                /\ orders.items[o].order_id = quotes[hold_id].slices[1][1]
                /\ orders.items[o].reserved_qty = quotes[hold_id].slices[1][2]

====
